---- MODULE Spec2Model ----
(***************************************************************************)
(* A model of the dtcc-data tile distribution service: the atlas index     *)
(* (binary-search seek and padded query of atlas/prototype.py), the server *)
(* discovery endpoints (server-lidar-gpkg-ssh-merged.py), and the client   *)
(* reconcile of atlas/checker.py with the atlas updates of atlas/utils.py. *)
(*                                                                         *)
(* Conventions.  Python sequences are 0-based and TLA+ sequences 1-based:  *)
(* an index held by the model is the Python index, and element i of a      *)
(* Python list l is l[i + 1] here.  A bounding box is the tuple            *)
(* <<xmin, ymin, xmax, ymax>>, so Python's bounds[0..3] is b[1..4].        *)
(* Atlas keys are decimal strings in the JSON files; the model holds the   *)
(* integer int(key) and orders keys as strings where the code does.        *)
(***************************************************************************)
EXTENDS Integers, Sequences, FiniteSets, TLC

VARIABLES
    input,      \* the argument record of the pure function under study
    output,     \* its result, NoOutput until the function has been applied
    serverTiles,\* per dataset type, the filenames the server publishes
    atlasFile,  \* per dataset type, the client's atlas file tester_<type>.json
    tileDir,    \* per dataset type, the files of <cache>/dtcc-atlas-data/<type>_data
    sampleTar,  \* the file sample.tar of the client's working directory
    newFiles,   \* the directory new_files of the client's working directory
    pc,         \* where the client's get_missing_files call stands
    call,       \* the arguments of the current (or last) get_missing_files call
    missing,    \* its missing_files
    outcome,    \* how the last get_missing_files call ended
    hist,       \* history: values of the current and the last reconcile that the properties refer to
    procs,      \* per concurrent reconcile, where it stands and what it holds in memory
    now,        \* the server's clock, time.time(), in seconds
    TOKENS,     \* the server's _TOKENS: token -> (expiry, username)
    issued,     \* history: per token, the issue_token call that made it
    rate_log,   \* the rate limiter's timestamps per source IP
    admitted,   \* history: the requests the rate limiter let through
    AR_IP_LOG,      \* the server's _AR_IP_LOG: IP -> accepted timestamps
    AR_EMAIL_LOG,   \* the server's _AR_EMAIL_LOG: lowercased email -> accepted timestamps
    requests_jsonl, \* the lines of <ACCESS_REQUESTS_DIR>/requests.jsonl
    intake,         \* where the request_access call in progress stands
    fsynced,        \* how many leading lines of requests.jsonl are on stable storage
    github_posts,   \* history: the issue-creation calls sent to GitHub
    cache_metadata, \* the records of the client's cache_metadata.json
    network_calls,  \* history: the boxes the client has asked Overpass for
    myfiles_tar_gz,      \* the backend's zipped_data/myfiles.tar.gz
    missing_coords_json  \* the backend's missing_coords.json, in its working directory

pureVars == <<input, output>>
cacheVars == <<cache_metadata, network_calls>>
clientVars == <<serverTiles, atlasFile, tileDir, sampleTar, newFiles, pc, call, missing,
                outcome, hist, cacheVars>>
intakeVars == <<intake, fsynced, github_posts>>
backendVars == <<myfiles_tar_gz, missing_coords_json>>
serverVars == <<now, TOKENS, issued, rate_log, admitted, AR_IP_LOG, AR_EMAIL_LOG,
                requests_jsonl, intakeVars, backendVars>>
vars == <<input, output, serverTiles, atlasFile, tileDir, sampleTar, newFiles, pc, call,
          missing, outcome, hist, procs, now, TOKENS, issued, rate_log, admitted,
          AR_IP_LOG, AR_EMAIL_LOG, requests_jsonl, intake, fsynced, github_posts,
          cache_metadata, network_calls, myfiles_tar_gz, missing_coords_json>>

NoOutput == [kind |-> "none"]

(***************************************************************************)
(* Bounds of the model.                                                    *)
(***************************************************************************)
MaxKeys == 4        \* longest key list handed to binary_search_within_range
MaxTiles == 3       \* most tiles in an atlas handed to find_files
MaxReconciles == 2  \* most get_missing_files calls of one run
MaxServerChanges == 1   \* most times the server's operator withdraws a tile

(***************************************************************************)
(* The client's files before its first reconcile.                          *)
(***************************************************************************)
Types == {"laz", "vl"}      \* "bygg" runs the code of "vl" (checker.py 232-244)

SidecarName == "missing_coords.json"

NoAtlasFile == [exists |-> FALSE, data |-> <<>>]
NoArchive == [state |-> "absent", names |-> {}, coords |-> {}]
EmptyDir == [names |-> {}, coords |-> {}]
NoRequest == [type |-> "none", bbox |-> <<0, 0, 0, 0>>]

ClientFresh ==
    /\ cache_metadata = <<>>
    /\ network_calls = <<>>
    /\ atlasFile = [t \in Types |-> NoAtlasFile]
    /\ tileDir = [t \in Types |-> {}]
    /\ sampleTar = NoArchive
    /\ newFiles = EmptyDir
    /\ pc = "idle"
    /\ call = NoRequest
    /\ missing = <<>>
    /\ outcome = "none"
    /\ hist = [atlasAtStart |-> [t \in Types |-> NoAtlasFile],
               tileDirAtStart |-> [t \in Types |-> {}],
               local_files |-> {}, server_files |-> {}, requested |-> {},
               lastOk |-> NoRequest, repeat |-> FALSE,
               reconciles |-> 0, serverChanges |-> 0,
               attempts |-> [discovery |-> 0, download |-> 0], network_error |-> FALSE]

(***************************************************************************)
(* Concurrent reconciles, and the server's state when it starts.           *)
(***************************************************************************)
Procs == {1, 2}

NoProc == [pc |-> "idle", type |-> "none", bbox |-> <<0, 0, 0, 0>>, missing |-> <<>>,
           downloaded |-> {}, extracted |-> {}, entries |-> {}, data |-> <<>>,
           wrote |-> FALSE, outcome |-> "none"]

ProcsFresh == procs = [p \in Procs |-> NoProc]

EmptyDict == [k \in {} |-> 0]

NoIntake == [pc |-> "idle"]
NoSidecarFile == [exists |-> FALSE, coords |-> {}]
ServerFresh ==
    /\ now = 0
    /\ TOKENS = EmptyDict
    /\ issued = EmptyDict
    /\ rate_log = EmptyDict
    /\ admitted = <<>>
    /\ AR_IP_LOG = EmptyDict
    /\ AR_EMAIL_LOG = EmptyDict
    /\ requests_jsonl = <<>>
    /\ intake = NoIntake
    /\ fsynced = 0
    /\ github_posts = <<>>
    /\ myfiles_tar_gz = NoArchive
    /\ missing_coords_json = NoSidecarFile

(***************************************************************************)
(* atlas/prototype.py                                                      *)
(***************************************************************************)

\* Python's None as the result of the index search.
None == -1

\* The padding of the seek, prototype.py line 51.
constant == 20000

RECURSIVE bsearch_loop(_, _, _, _, _)
bsearch_loop(arr, low_bound, high_bound, low, high) ==
    IF low > high THEN None
    ELSE LET mid == (low + high) \div 2
             current_value == arr[mid + 1]
         IN IF low_bound <= current_value /\ current_value <= high_bound
            THEN IF mid = 0 \/ arr[mid] < low_bound
                 THEN mid
                 ELSE bsearch_loop(arr, low_bound, high_bound, low, mid - 1)
            ELSE IF current_value < low_bound
                 THEN bsearch_loop(arr, low_bound, high_bound, mid + 1, high)
                 ELSE bsearch_loop(arr, low_bound, high_bound, low, mid - 1)

\* A variant that returns the first key it probes inside the range.
binary_search_any_hit(arr, low_bound, high_bound) ==
    LET RECURSIVE loop(_, _)
        loop(low, high) ==
            IF low > high THEN None
            ELSE LET mid == (low + high) \div 2
                     current_value == arr[mid + 1]
                 IN IF low_bound <= current_value /\ current_value <= high_bound
                    THEN mid
                    ELSE IF current_value < low_bound
                         THEN loop(mid + 1, high)
                         ELSE loop(low, mid - 1)
    IN loop(0, Len(arr) - 1)

binary_search_within_range(arr, low_bound, high_bound) ==
    bsearch_loop(arr, low_bound, high_bound, 0, Len(arr) - 1)

\* The outcome of a call that either returns a list or raises.
Returned(list) == [raised |-> FALSE, list |-> list]
Raised == [raised |-> TRUE, list |-> <<>>]

\* One candidate tile of find_tiles: the entry found at data[x_min][y_min].
TileAt(x_min, entry) ==
    [filename |-> entry.filename, x |-> x_min, y |-> entry.y,
     width |-> entry.width, height |-> entry.height]

\* The inner while loop of find_tiles (lines 75-93) over one column.
RECURSIVE y_loop(_, _, _, _, _, _)
y_loop(col, x_min, bounds, index_y, previous_max, tiles) ==
    IF index_y >= Len(col) THEN tiles
    ELSE LET entry == col[index_y + 1]
         IN IF entry.y <= bounds[4] + constant /\ previous_max < bounds[4] + constant
            THEN y_loop(col, x_min, bounds, index_y + 1, entry.width + entry.y,
                        Append(tiles, TileAt(x_min, entry)))
            ELSE tiles

\* The seek of the first row of a column (lines 67-69).
seek_y(y_data, bounds) ==
    LET index_y == binary_search_within_range(y_data, bounds[2] - constant, bounds[2])
    IN IF (index_y = None \/ index_y = 0) /\ bounds[2] <= y_data[1] THEN 0 ELSE index_y

\* The outer while loop of find_tiles (lines 65-98).  When the seek of a
\* column finds no row, line 71 calls info(...), but info is a local name of
\* find_tiles (assigned at line 76): the call raises UnboundLocalError, or
\* TypeError once a tile has been read, and find_tiles returns nothing.
RECURSIVE x_loop(_, _, _, _)
x_loop(data, bounds, index_x, tiles) ==
    IF index_x >= Len(data) THEN Returned(tiles)
    ELSE IF ~(data[index_x + 1].x <= bounds[3] + constant) THEN Returned(tiles)
    ELSE LET col == data[index_x + 1].ys
             y_data == [i \in 1..Len(col) |-> col[i].y]
             index_y == seek_y(y_data, bounds)
         IN IF index_y = None THEN Raised
            ELSE x_loop(data, bounds, index_x + 1,
                        y_loop(col, data[index_x + 1].x, bounds, index_y, 0, tiles))

\* The seek of the first column (lines 56-58).
seek_x(x_data, bounds) ==
    LET index_x == binary_search_within_range(x_data, bounds[1] - constant, bounds[1])
    IN IF (index_x = None \/ index_x = 0) /\ bounds[1] < x_data[1] THEN 0 ELSE index_x

find_tiles(data, bounds) ==
    IF data = <<>> THEN Returned(<<>>)
    ELSE LET x_data == [i \in 1..Len(data) |-> data[i].x]
             index_x == seek_x(x_data, bounds)
         IN IF index_x = None THEN Raised       \* line 61: info is unbound
            ELSE x_loop(data, bounds, index_x, <<>>)

\* The closed rectangle test shapely's intersects makes on two boxes.
RectIntersects(axmin, aymin, axmax, aymax, b) ==
    axmin <= b[3] /\ axmax >= b[1] /\ aymin <= b[4] /\ aymax >= b[2]

\* hardcoded_bounds of find_files (line 120).  Every bounding box the model
\* draws lies inside the polygon's axis-parallel part, the rectangle below
\* (between its left edge x = 266646, its bottom edge y = 5921055, the edge
\* x = 516646 and the lowest point of its top edge), or outside the polygon's
\* envelope; for those the polygon test is the test against this rectangle.
hardcoded_bounds_hit(selected_area) ==
    RectIntersects(266646, 5921055, 516646, 7421055, selected_area)

RECURSIVE FilterSeq(_, _)
FilterSeq(tiles, selected_area) ==
    IF tiles = <<>> THEN <<>>
    ELSE LET t == Head(tiles)
             rest == FilterSeq(Tail(tiles), selected_area)
         IN IF RectIntersects(t.x, t.y, t.x + t.width, t.y + t.height, selected_area)
            THEN <<t.filename>> \o rest
            ELSE rest

find_files(data, selected_area) ==
    IF ~hardcoded_bounds_hit(selected_area) THEN Returned(<<>>)
    ELSE LET found == find_tiles(data, selected_area)
         IN IF found.raised THEN Raised
            ELSE Returned(FilterSeq(found.list, selected_area))

SeqToSet(s) == {s[i] : i \in 1..Len(s)}

(***************************************************************************)
(* Building the two-level atlas of a set of tiles.                         *)
(***************************************************************************)
RECURSIVE SortInts(_)
SortInts(S) ==
    IF S = {} THEN <<>>
    ELSE LET m == CHOOSE a \in S : \A b \in S : a <= b
         IN <<m>> \o SortInts(S \ {m})

EntryOf(t) == [y |-> t.y, filename |-> t.filename, width |-> t.width, height |-> t.height]

\* The atlas an offline builder writes: columns and rows sorted as integers
\* (server/create_atlas_gpkg.py lines 118-122).
IntSortedAtlas(tiles) ==
    LET xs == SortInts({t.x : t \in tiles})
        Column(x) ==
            LET ys == SortInts({t.y : t \in {u \in tiles : u.x = x}})
            IN [j \in 1..Len(ys) |->
                  EntryOf(CHOOSE t \in tiles : t.x = x /\ t.y = ys[j])]
    IN [i \in 1..Len(xs) |-> [x |-> xs[i], ys |-> Column(xs[i])]]

AtlasTiles(data) ==
    UNION {{TileAt(data[i].x, data[i].ys[j]) : j \in 1..Len(data[i].ys)} :
              i \in 1..Len(data)}

(***************************************************************************)
(* Inputs of the search study.                                             *)
(***************************************************************************)
KeyDomain == {0, 10000, 20000, 30000, 50000}
BoundDomain == {-5000, 0, 10000, 15000, 30000, 40000, 60000}

IsSortedInt(s) == \A i \in 1..(Len(s) - 1) : s[i] <= s[i + 1]

SortedKeyLists ==
    {s \in UNION {[1..n -> KeyDomain] : n \in 0..MaxKeys} : IsSortedInt(s)}

SearchInputs ==
    {[fn |-> "binary_search_within_range", arr |-> s, low_bound |-> l, high_bound |-> h] :
        s \in SortedKeyLists,
        l \in BoundDomain,
        h \in {b \in BoundDomain : b >= 0}}

\* Atlases of tiles no larger than the padding, on origins some of which lie
\* more than the padding apart, and query boxes inside the supported area.
OriginXs == {446646, 456646, 486646}
OriginYs == {7171055, 7181055, 7211055}
TileSizes == {10000, 20000}
QueryXs == {440000, 450000, 470000, 490000}
QueryYs == {7165000, 7175000, 7195000, 7215000}

GridTiles(size) ==
    {[filename |-> <<"tile", x, y>>, x |-> x, y |-> y, width |-> size, height |-> size] :
        x \in OriginXs, y \in OriginYs}

QueryBoxes ==
    {<<x1, y1, x2, y2>> : x1 \in QueryXs, y1 \in QueryYs, x2 \in QueryXs, y2 \in QueryYs}

FindInputs ==
    {[fn |-> "find_files", data |-> IntSortedAtlas(ts), selected_area |-> q] :
        ts \in UNION {{S \in SUBSET GridTiles(size) : Cardinality(S) <= MaxTiles} :
                         size \in TileSizes},
        q \in {b \in QueryBoxes : b[1] < b[3] /\ b[2] < b[4]}}

InitSearch ==
    /\ input \in {i \in SearchInputs : i.low_bound <= i.high_bound} \cup FindInputs
    /\ output = NoOutput
    /\ serverTiles = [t \in Types |-> {}]
    /\ ClientFresh
    /\ ProcsFresh
    /\ ServerFresh

ApplyFindFiles ==
    /\ output = NoOutput
    /\ input.fn = "find_files"
    /\ output' = [kind |-> "files", result |-> find_files(input.data, input.selected_area)]
    /\ UNCHANGED <<input, clientVars, serverVars, procs>>

ApplyBinarySearch ==
    /\ output = NoOutput
    /\ input.fn = "binary_search_within_range"
    /\ output' = [kind |-> "index",
                  index |-> binary_search_within_range(input.arr, input.low_bound, input.high_bound)]
    /\ UNCHANGED <<input, clientVars, serverVars, procs>>

NextSearch == ApplyBinarySearch \/ ApplyFindFiles

SpecSearch == InitSearch /\ [][NextSearch]_vars

KeysInRange(arr, l, h) == {i \in 1..Len(arr) : l <= arr[i] /\ arr[i] <= h}

\* C8: on a list sorted ascending as integers and bounds L <= H, the search
\* returns the (Python) index of the smallest key in [L,H], and None exactly
\* when no key lies in [L,H].
C8_SmallestKeyInRange ==
    (output.kind = "index") =>
        LET hits == KeysInRange(input.arr, input.low_bound, input.high_bound)
        IN /\ (output.index = None) <=> (hits = {})
           /\ (hits # {}) =>
                /\ output.index + 1 \in hits
                /\ \A j \in hits : output.index + 1 <= j

\* A search that had to move left past keys inside the range to find the first.
C8_Witness ==
    /\ output.kind = "index"
    /\ output.index = 1
    /\ Cardinality(KeysInRange(input.arr, input.low_bound, input.high_bound)) >= 3
    /\ Len(input.arr) = 4

\* The tiles of an atlas whose rectangle meets the query box, found by testing
\* every tile.
ScanAtlas(data, q) ==
    {t.filename : t \in {u \in AtlasTiles(data) :
        ~(u.x + u.width < q[1] \/ u.x > q[3] \/ u.y + u.height < q[2] \/ u.y > q[4])}}

\* C7: on an atlas sorted as integers with tiles no larger than the padding,
\* the padded-seek query returns the filenames of exactly the tiles that a
\* test of every tile against the query box admits.
\* (A call that raises yields no filename.)
C7_PaddedSeekEqualsScan ==
    (output.kind = "files") =>
        SeqToSet(output.result.list) = ScanAtlas(input.data, input.selected_area)

\* Whenever the padded seek does return, it returns what the scan returns.
C7_ReturnedEqualsScan ==
    (output.kind = "files" /\ ~output.result.raised) =>
        SeqToSet(output.result.list) = ScanAtlas(input.data, input.selected_area)

\* A query the padded seek answers with several tiles, some of them reached
\* through the padding below the query's lower edges.
C7_Witness ==
    /\ output.kind = "files"
    /\ ~output.result.raised
    /\ Len(output.result.list) >= 2
    /\ \E t \in AtlasTiles(input.data) :
          t.x < input.selected_area[1] /\ t.filename \in SeqToSet(output.result.list)

(***************************************************************************)
(* Discovery endpoints of server-lidar-gpkg-ssh-merged.py                  *)
(***************************************************************************)

\* A comparison that is open on equality.
bboxes_overlap_strictly(axmin, aymin, axmax, aymax, bxmin, bymin, bxmax, bymax) ==
    ~(axmax <= bxmin \/ axmin >= bxmax \/ aymax <= bymin \/ aymin >= bymax)

bboxes_intersect(axmin, aymin, axmax, aymax, bxmin, bymin, bxmax, bymax) ==
    ~(axmax < bxmin \/ axmin > bxmax \/ aymax < bymin \/ aymin > bymax)

HttpError(code) == [status |-> code, num_tiles |-> 0, tiles |-> <<>>]
HttpSuccess(tiles) == [status |-> 200, num_tiles |-> Len(tiles), tiles |-> tiles]

\* The loops of get_lidar_tiles over atlas.items() and y_dict.items().
RECURSIVE lidar_column(_, _, _, _, _, _, _)
lidar_column(x_int, col, j, bxmin, bymin, bxmax, bymax) ==
    IF j > Len(col) THEN <<>>
    ELSE LET tile_info == col[j]
             tile_xmax == x_int + tile_info.width
             tile_ymax == tile_info.y + tile_info.height
             rest == lidar_column(x_int, col, j + 1, bxmin, bymin, bxmax, bymax)
         IN IF bboxes_intersect(x_int, tile_info.y, tile_xmax, tile_ymax,
                                bxmin, bymin, bxmax, bymax)
            THEN <<[filename |-> tile_info.filename, xmin |-> x_int, ymin |-> tile_info.y,
                    xmax |-> tile_xmax, ymax |-> tile_ymax]>> \o rest
            ELSE rest

RECURSIVE lidar_atlas_loop(_, _, _, _, _, _)
lidar_atlas_loop(atlas, i, bxmin, bymin, bxmax, bymax) ==
    IF i > Len(atlas) THEN <<>>
    ELSE lidar_column(atlas[i].x, atlas[i].ys, 1, bxmin, bymin, bxmax, bymax)
         \o lidar_atlas_loop(atlas, i + 1, bxmin, bymin, bxmax, bymax)

\* A handler that tests the box as given, before the buffer is applied.
get_lidar_tiles_unbuffered_test(atlas, req) ==
    LET bxmin == req.xmin - req.buffer
        bymin == req.ymin - req.buffer
        bxmax == req.xmax + req.buffer
        bymax == req.ymax + req.buffer
    IN IF req.xmin > req.xmax \/ req.ymin > req.ymax THEN HttpError(400)
       ELSE LET tiles_info == lidar_atlas_loop(atlas, 1, bxmin, bymin, bxmax, bymax)
            IN IF tiles_info = <<>> THEN HttpError(404) ELSE HttpSuccess(tiles_info)

get_lidar_tiles(atlas, req) ==
    LET bxmin == req.xmin - req.buffer
        bymin == req.ymin - req.buffer
        bxmax == req.xmax + req.buffer
        bymax == req.ymax + req.buffer
    IN IF bxmin > bxmax \/ bymin > bymax THEN HttpError(400)
       ELSE LET tiles_info == lidar_atlas_loop(atlas, 1, bxmin, bymin, bxmax, bymax)
            IN IF tiles_info = <<>> THEN HttpError(404) ELSE HttpSuccess(tiles_info)

\* The loop of get_gpkg_tiles over atlas_data.items(); an entry that lacks a
\* field or holds a non-numeric one is skipped (lines 544-551).
RECURSIVE gpkg_atlas_loop(_, _, _)
gpkg_atlas_loop(atlas_data, i, req) ==
    IF i > Len(atlas_data) THEN <<>>
    ELSE LET tile_info == atlas_data[i]
             rest == gpkg_atlas_loop(atlas_data, i + 1, req)
         IN IF ~tile_info.wellformed THEN rest
            ELSE IF bboxes_intersect(tile_info.minx, tile_info.miny, tile_info.maxx,
                                     tile_info.maxy, req.minx, req.miny, req.maxx, req.maxy)
                 THEN <<tile_info.filename>> \o rest
                 ELSE rest

get_gpkg_tiles(atlas_data, req) ==
    IF req.minx > req.maxx \/ req.miny > req.maxy THEN HttpError(400)   \* ensure_valid_bbox
    ELSE LET matched_files == gpkg_atlas_loop(atlas_data, 1, req)
         IN IF matched_files = <<>> THEN HttpError(404) ELSE HttpSuccess(matched_files)

(***************************************************************************)
(* Inputs of the discovery study: the tile of the specification's scenario *)
(* and its neighbours, and query boxes on, inside and beyond their edges.  *)
(***************************************************************************)
DiscoveryCoords == {0, 50, 100, 150}
DiscoveryBuffers == {0, 50, 0 - 50}

GpkgEntries ==
    {[wellformed |-> TRUE, filename |-> <<"tile", x, y>>,
      minx |-> x, miny |-> y, maxx |-> x + 100, maxy |-> y + 100] :
        x \in {0, 200}, y \in {0, 200}}
    \cup {[wellformed |-> FALSE, filename |-> <<"tile", 0, 0>>,
           minx |-> 0, miny |-> 0, maxx |-> 0, maxy |-> 0]}

RECURSIVE SetToSeq(_)
SetToSeq(S) ==
    IF S = {} THEN <<>>
    ELSE LET e == CHOOSE e \in S : TRUE IN <<e>> \o SetToSeq(S \ {e})

LidarTiles ==
    {[filename |-> <<"laz", x, y>>, x |-> x, y |-> y, width |-> 100, height |-> 100] :
        x \in {0, 200}, y \in {0, 200}}

DiscoveryInputs ==
    {[fn |-> "get_gpkg_tiles", atlas |-> SetToSeq(es),
      req |-> [minx |-> x1, miny |-> y1, maxx |-> x2, maxy |-> y2]] :
        es \in {S \in SUBSET GpkgEntries : Cardinality(S) <= MaxTiles},
        x1 \in DiscoveryCoords, y1 \in DiscoveryCoords,
        x2 \in DiscoveryCoords, y2 \in DiscoveryCoords}
    \cup
    {[fn |-> "get_lidar_tiles", atlas |-> IntSortedAtlas(ts),
      req |-> [xmin |-> b[1], ymin |-> b[2], xmax |-> b[3], ymax |-> b[4], buffer |-> b[5]]] :
        ts \in {S \in SUBSET LidarTiles : Cardinality(S) <= MaxTiles},
        b \in DiscoveryCoords \X DiscoveryCoords \X DiscoveryCoords \X DiscoveryCoords
                \X DiscoveryBuffers}

InitDiscover ==
    /\ input \in DiscoveryInputs
    /\ output = NoOutput
    /\ serverTiles = [t \in Types |-> {}]
    /\ ClientFresh
    /\ ProcsFresh
    /\ ServerFresh

ApplyGetGpkgTiles ==
    /\ output = NoOutput
    /\ input.fn = "get_gpkg_tiles"
    /\ output' = [kind |-> "response", response |-> get_gpkg_tiles(input.atlas, input.req)]
    /\ UNCHANGED <<input, clientVars, serverVars, procs>>

ApplyGetLidarTiles ==
    /\ output = NoOutput
    /\ input.fn = "get_lidar_tiles"
    /\ output' = [kind |-> "response", response |-> get_lidar_tiles(input.atlas, input.req)]
    /\ UNCHANGED <<input, clientVars, serverVars, procs>>

NextDiscover == ApplyGetGpkgTiles \/ ApplyGetLidarTiles

SpecDiscover == InitDiscover /\ [][NextDiscover]_vars

\* The query rectangle of a discovery request: the box as given for the GPKG
\* endpoint, the box expanded by buffer on all four sides for the LiDAR one.
QueryRect ==
    IF input.fn = "get_gpkg_tiles"
    THEN <<input.req.minx, input.req.miny, input.req.maxx, input.req.maxy>>
    ELSE <<input.req.xmin - input.req.buffer, input.req.ymin - input.req.buffer,
           input.req.xmax + input.req.buffer, input.req.ymax + input.req.buffer>>

\* The rectangles <<xmin, ymin, xmax, ymax>> of the atlas's tiles, by filename.
ServedTiles ==
    IF input.fn = "get_gpkg_tiles"
    THEN {[filename |-> e.filename, rect |-> <<e.minx, e.miny, e.maxx, e.maxy>>] :
            e \in {a \in SeqToSet(input.atlas) : a.wellformed}}
    ELSE {[filename |-> t.filename, rect |-> <<t.x, t.y, t.x + t.width, t.y + t.height>>] :
            t \in AtlasTiles(input.atlas)}

\* Two closed rectangles share a point.
SharePoint(r, q) ==
    /\ r[1] <= q[3] /\ q[1] <= r[3]
    /\ r[2] <= q[4] /\ q[2] <= r[4]

ResponseFilenames ==
    {IF input.fn = "get_gpkg_tiles" THEN output.response.tiles[i]
     ELSE output.response.tiles[i].filename : i \in 1..Len(output.response.tiles)}

\* C1: for a valid query box, a discovery endpoint returns exactly the tiles
\* whose rectangle shares a point with the query rectangle (touching edges
\* and a point query inside a tile included); the empty answer is the 404.
C1_DiscoveryIsIntersection ==
    (output.kind = "response" /\ QueryRect[1] <= QueryRect[3] /\ QueryRect[2] <= QueryRect[4]) =>
        LET expected == {t.filename : t \in {u \in ServedTiles : SharePoint(u.rect, QueryRect)}}
        IN /\ output.response.status \in {200, 404}
           /\ (output.response.status = 404) <=> (expected = {})
           /\ ResponseFilenames = expected
           /\ Len(output.response.tiles) = Cardinality(expected)

\* An edge-touching query answered with the tile it touches, the atlas
\* holding other tiles that are left out.
C1_Witness ==
    /\ output.kind = "response"
    /\ input.fn = "get_gpkg_tiles"
    /\ input.req = [minx |-> 100, miny |-> 0, maxx |-> 150, maxy |-> 50]
    /\ output.response.tiles = << <<"tile", 0, 0>> >>
    /\ Len(input.atlas) = 3

Inverted(q) == q[1] > q[3] \/ q[2] > q[4]

\* C27: with the atlas loaded, a discovery request is answered 400 exactly
\* when its query rectangle is inverted, 404 exactly when the rectangle is
\* valid and shares no point with any tile, and otherwise 200 with a
\* non-empty list of num_tiles tiles.
C27_StatusByBox ==
    output.kind = "response" =>
        LET hit == \E t \in ServedTiles : SharePoint(t.rect, QueryRect)
            r == output.response
        IN /\ (r.status = 400) <=> Inverted(QueryRect)
           /\ (r.status = 404) <=> (~Inverted(QueryRect) /\ ~hit)
           /\ (~Inverted(QueryRect) /\ hit) =>
                 (r.status = 200 /\ r.tiles # <<>> /\ Len(r.tiles) = r.num_tiles)

\* A LiDAR request whose box is in order as given and inverted once the
\* negative buffer is applied, answered 400 over an atlas with tiles.
C27_Witness ==
    /\ output.kind = "response"
    /\ input.fn = "get_lidar_tiles"
    /\ input.req.xmin <= input.req.xmax
    /\ input.req.ymin <= input.req.ymax
    /\ input.req.buffer < 0
    /\ output.response.status = 400
    /\ Len(input.atlas) >= 1

(***************************************************************************)
(* The datasets of the reconcile study.                                    *)
(***************************************************************************)

\* The vector tiles the builder cut (10000 units square, named by origin).
VlTiles ==
    {[filename |-> "tile_446646_7171055.gpkg", x |-> 446646, y |-> 7171055],
     [filename |-> "tile_456646_7171055.gpkg", x |-> 456646, y |-> 7171055]}

\* The LAZ files, by the extent of their points (what get_tile_info reads).
LazFiles ==
    {[filename |-> "a.laz", minx |-> 446646, miny |-> 7171055, maxx |-> 449145, maxy |-> 7173554],
     [filename |-> "b.laz", minx |-> 446646, miny |-> 7173555, maxx |-> 449145, maxy |-> 7176054]}

VlNames == {t.filename : t \in VlTiles}
LazNames == {l.filename : l \in LazFiles}
TileNames(type) == IF type = "laz" THEN LazNames ELSE VlNames

VlTile(f) == CHOOSE t \in VlTiles : t.filename = f
LazFile(f) == CHOOSE l \in LazFiles : l.filename = f

\* The filenames in the order Python (and numpy) sort them.
NameOrder ==
    <<"a.laz", "b.laz", "missing_coords.json",
      "tile_446646_7171055.gpkg", "tile_456646_7171055.gpkg">>

\* The bounding boxes a reconcile is called with.
Queries(type) ==
    IF type = "laz"
    THEN {<<447000, 7172000, 448000, 7173000>>,     \* inside a.laz
          <<449146, 7172000, 449500, 7173000>>,     \* on the edge x = 449146
          <<447000, 7173000, 448000, 7174000>>}     \* over a.laz and b.laz
    ELSE {<<447000, 7172000, 448000, 7173000>>,     \* inside the first tile
          <<455000, 7172000, 458000, 7173000>>,     \* over both tiles
          <<480000, 7172000, 481000, 7173000>>}     \* beyond the padding of any tile

(***************************************************************************)
(* server/backend.py and the atlases its builders write                    *)
(***************************************************************************)

\* The entry of a tile in the server's atlas: create_atlas_gpkg.py 109-113,
\* and create_atlas_lidar.py 25 (width and height one more than the extent).
ServerEntry(type, f) ==
    IF type = "laz"
    THEN LET l == LazFile(f)
         IN [filename |-> f, x |-> l.minx, y |-> l.miny,
             width |-> (l.maxx - l.minx) + 1, height |-> (l.maxy - l.miny) + 1]
    ELSE LET t == VlTile(f)
         IN [filename |-> f, x |-> t.x, y |-> t.y, width |-> 10000, height |-> 10000]

ServerAtlas(type, published) ==
    IntSortedAtlas({ServerEntry(type, f) : f \in published})

\* process_bounding_box: find_files on the dataset's atlas; an exception in
\* the handler is Flask's 500.
process_bounding_box(type, points, published) ==
    LET serverfiles == find_files(ServerAtlas(type, published), points)
    IN IF serverfiles.raised THEN [status |-> 500, received_points |-> <<>>]
       ELSE [status |-> 200, received_points |-> serverfiles.list]

\* create_tarball: the requested files that exist, and the extra file.
create_tarball(directory, file_list, extra_file, coords) ==
    [state |-> "complete",
     names |-> (file_list \cap directory) \cup extra_file,
     coords |-> coords]

\* download_vl_files (and download_bygg_files): data[file] raises KeyError
\* for a name file_to_coords does not know.
download_vl_files(filenames, published) ==
    IF \E file \in filenames : file \notin published
    THEN [status |-> 500, archive |-> NoArchive]
    ELSE [status |-> 200,
          archive |-> create_tarball(published, filenames, {SidecarName}, filenames)]

download_laz_files(filenames, published) ==
    [status |-> 200, archive |-> create_tarball(published, filenames, {}, {})]

ServerDownload(type, filenames, published) ==
    IF type = "laz" THEN download_laz_files(filenames, published)
    ELSE download_vl_files(filenames, published)

(***************************************************************************)
(* atlas/utils.py: the updates of the client's atlas                       *)
(***************************************************************************)

\* str(n) of a natural number, as its digits.
RECURSIVE Digits(_)
Digits(n) == IF n < 10 THEN <<n>> ELSE Append(Digits(n \div 10), n % 10)

\* Python's < on two digit strings.
RECURSIVE LexLess(_, _)
LexLess(a, b) ==
    IF a = <<>> THEN b # <<>>
    ELSE IF b = <<>> THEN FALSE
    ELSE IF Head(a) # Head(b) THEN Head(a) < Head(b)
    ELSE LexLess(Tail(a), Tail(b))

StrLess(m, n) == LexLess(Digits(m), Digits(n))

\* sorted(keys) on string keys.
RECURSIVE SortStrs(_)
SortStrs(S) ==
    IF S = {} THEN <<>>
    ELSE LET m == CHOOSE a \in S : \A b \in S \ {a} : StrLess(a, b)
         IN <<m>> \o SortStrs(S \ {m})

\* sorted_catalog of update_laz_atlas (lines 51-55) and update_gpkg_atlas
\* (lines 88-92): both levels in the order of sorted() on the string keys.
StrSortedAtlas(tiles) ==
    LET xs == SortStrs({t.x : t \in tiles})
        Column(x) ==
            LET ys == SortStrs({t.y : t \in {u \in tiles : u.x = x}})
            IN [j \in 1..Len(ys) |->
                  EntryOf(CHOOSE t \in tiles : t.x = x /\ t.y = ys[j])]
    IN [i \in 1..Len(xs) |-> [x |-> xs[i], ys |-> Column(xs[i])]]

\* json.load of the atlas file, {} when it is missing or unparseable.
LoadAtlas(file) == IF file.exists THEN file.data ELSE <<>>

\* An update that forgets the entries the atlas file held.
MergeEntriesForgetting(data, entries) == entries

\* data[x][y] = entry for every new entry: an entry replaces the one at its key.
MergeEntries(data, entries) ==
    {t \in AtlasTiles(data) : ~\E e \in entries : e.x = t.x /\ e.y = t.y} \cup entries

WrittenAtlas(tiles) == [exists |-> TRUE, data |-> StrSortedAtlas(tiles)]

LocalGpkgEntry(item) ==
    [filename |-> item, x |-> VlTile(item).x, y |-> VlTile(item).y,
     width |-> 10000, height |-> 10000]

\* get_tile_info and the entry update_laz_atlas makes of it (lines 41-50).
LocalLazEntry(file) ==
    LET l == LazFile(file)
    IN [filename |-> file, x |-> l.minx, y |-> l.miny,
        width |-> l.maxx - l.minx, height |-> l.maxy - l.miny]

\* The result of an update: whether it raised, and the atlas file it leaves.
UpdateRaised(file) == [raised |-> TRUE, file |-> file]
UpdateDone(file) == [raised |-> FALSE, file |-> file]

\* An update of the LAZ atlas that writes the file after every entry.
update_laz_atlas_eager(directory, file, unreadable) ==
    LET readable == (directory.names \cap LazNames) \ unreadable
    IN IF (directory.names \cap LazNames) \cap unreadable # {}
       THEN UpdateRaised(WrittenAtlas(MergeEntries(LoadAtlas(file),
                                        {LocalLazEntry(f) : f \in readable})))
       ELSE UpdateDone(WrittenAtlas(MergeEntries(LoadAtlas(file),
                                        {LocalLazEntry(f) : f \in readable})))

\* update_laz_atlas: get_tile_info raises on a file laspy cannot read, before
\* the atlas file is opened for writing.
update_laz_atlas(directory, file, unreadable) ==
    LET laz == directory.names \cap LazNames
    IN IF laz \cap unreadable # {} THEN UpdateRaised(file)
       ELSE UpdateDone(WrittenAtlas(MergeEntries(LoadAtlas(file),
                                        {LocalLazEntry(f) : f \in laz})))

\* update_gpkg_atlas: opening or parsing missing_coords.json raises before
\* the atlas file is touched.
update_gpkg_atlas(directory, file, sidecarReadable) ==
    IF SidecarName \notin directory.names \/ ~sidecarReadable THEN UpdateRaised(file)
    ELSE UpdateDone(WrittenAtlas(MergeEntries(LoadAtlas(file),
                                    {LocalGpkgEntry(item) : item \in directory.coords})))

(***************************************************************************)
(* atlas/checker.py: the reconcile                                         *)
(***************************************************************************)

\* np.setdiff1d: the sorted unique values of ar1 that are not in ar2.
setdiff1d(ar1, ar2) == SelectSeq(NameOrder, LAMBDA n : n \in ar1 /\ n \notin ar2)

files_to_send(local, server) ==
    LET dif1 == setdiff1d(local, server)
        dif2 == setdiff1d(server, local)
    IN dif1 \o dif2

\* The parameters dictionary of a call, as far as the reconcile reads it.
ParameterChoices ==
    {[cache_directory_exists |-> TRUE, ssh_accepts |-> TRUE],
     [cache_directory_exists |-> FALSE, ssh_accepts |-> TRUE],
     [cache_directory_exists |-> TRUE, ssh_accepts |-> FALSE]}

check_data_directory(parameters) == parameters.cache_directory_exists
set_ssh(parameters) == parameters.ssh_accepts

Hist(field, value) == [hist EXCEPT ![field] = value]

\* get_missing_files up to its prompt (lines 174-198).
GetMissingFiles(type, bbox) ==
    /\ pc = "idle"
    /\ hist.reconciles < MaxReconciles
    /\ call' = [type |-> type, bbox |-> bbox]
    /\ \E server_up \in BOOLEAN :
         LET response == process_bounding_box(type, bbox, serverTiles[type])
             local == find_files(LoadAtlas(atlasFile[type]), bbox)
             started == [hist EXCEPT !.atlasAtStart = atlasFile,
                                     !.tileDirAtStart = tileDir,
                                     !.lastOk = NoRequest,
                                     !.reconciles = @ + 1,
                                     !.requested = {},
                                     !.repeat = (hist.lastOk = call'),
                                     !.attempts = [discovery |-> 1, download |-> 0],
                                     !.network_error = ~server_up]
         IN IF ~server_up
            THEN \* requests.post raises: "The server seems to be down"
                 /\ outcome' = "server_down"
                 /\ missing' = <<>>
                 /\ hist' = [started EXCEPT !.local_files = {}, !.server_files = {}]
                 /\ pc' = "idle"
            ELSE IF response.status # 200 \/ local.raised
            THEN \* find_files raises, or file_diff_info raises on server_files = None
                 /\ outcome' = "raised"
                 /\ missing' = <<>>
                 /\ hist' = [started EXCEPT !.local_files = {}, !.server_files = {}]
                 /\ pc' = "idle"
            ELSE LET local_files == SeqToSet(local.list)
                     server_files == SeqToSet(response.received_points)
                     missing_files == files_to_send(local_files, server_files)
                 IN /\ missing' = missing_files
                    /\ hist' = [started EXCEPT !.local_files = local_files,
                                               !.server_files = server_files]
                    /\ IF missing_files = <<>>
                       THEN pc' = "idle" /\ outcome' = "up_to_date"
                       ELSE pc' = "prompt" /\ outcome' = "running"
    /\ UNCHANGED <<serverVars, cacheVars, procs, input, output, serverTiles, atlasFile, tileDir, sampleTar, newFiles>>

\* The answer "n" to the prompt (lines 205-206).
Decline ==
    /\ pc = "prompt"
    /\ pc' = "idle"
    /\ outcome' = "declined"
    /\ UNCHANGED <<serverVars, cacheVars, procs, input, output, serverTiles, atlasFile, tileDir, sampleTar, newFiles, call, missing, hist>>

\* The answer "y" and download_missing_files (lines 134-165).  The request
\* may fail before the response arrives (refused) or while its body is
\* written to sample.tar (cut).
DownloadMissingFiles ==
    /\ pc = "prompt"
    /\ \E parameters \in ParameterChoices, network \in {"ok", "refused", "cut"} :
         IF ~check_data_directory(parameters)
            \/ (call.type # "laz" /\ ~set_ssh(parameters))
         THEN \* returns without a request; get_missing_files goes on to fix_atlas
              /\ pc' = "fix_atlas"
              /\ outcome' = "running"
              /\ UNCHANGED <<sampleTar, hist>>
         ELSE LET filenames == SeqToSet(missing)
                  r == ServerDownload(call.type, filenames, serverTiles[call.type])
              IN /\ hist' = [hist EXCEPT !.requested = filenames,
                                          !.attempts.download = 1,
                                          !.network_error = (network # "ok")]
                 /\ IF network = "refused" \/ r.status # 200
                    THEN \* requests.get or raise_for_status raises
                         /\ pc' = "idle"
                         /\ outcome' = "download_failed"
                         /\ UNCHANGED sampleTar
                    ELSE IF network = "cut"
                    THEN \* iter_content raises with sample.tar partly written
                         /\ pc' = "idle"
                         /\ outcome' = "download_failed"
                         /\ sampleTar' = [state |-> "partial", names |-> {}, coords |-> {}]
                    ELSE /\ pc' = "fix_atlas"
                         /\ outcome' = "running"
                         /\ sampleTar' = r.archive
    /\ UNCHANGED <<serverVars, cacheVars, procs, input, output, serverTiles, atlasFile, tileDir, newFiles, call, missing>>

\* fix_atlas, lines 219-222: tarfile.open and extractall into new_files.
FixAtlasExtract ==
    /\ pc = "fix_atlas"
    /\ IF sampleTar.state # "complete"
       THEN \* FileNotFoundError, or ReadError on a truncated archive
            /\ pc' = "idle"
            /\ outcome' = "extract_failed"
            /\ UNCHANGED newFiles
       ELSE /\ pc' = "update"
            /\ outcome' = "running"
            /\ newFiles' = [names |-> newFiles.names \cup sampleTar.names,
                            coords |-> IF SidecarName \in sampleTar.names
                                       THEN sampleTar.coords ELSE newFiles.coords]
    /\ UNCHANGED <<serverVars, cacheVars, procs, input, output, serverTiles, atlasFile, tileDir, sampleTar, call, missing, hist>>

\* fix_atlas, lines 224, 233, 246: the update of the dataset's atlas.
FixAtlasUpdate ==
    /\ pc = "update"
    /\ \E unreadable \in {{}} \cup {{f} : f \in newFiles.names \cap LazNames},
          sidecarReadable \in BOOLEAN :
         LET r == IF call.type = "laz"
                  THEN update_laz_atlas(newFiles, atlasFile[call.type], unreadable)
                  ELSE update_gpkg_atlas(newFiles, atlasFile[call.type], sidecarReadable)
         IN /\ atlasFile' = [atlasFile EXCEPT ![call.type] = r.file]
            /\ IF r.raised
               THEN pc' = "idle" /\ outcome' = "update_failed"
               ELSE pc' = "move" /\ outcome' = "running"
    /\ UNCHANGED <<serverVars, cacheVars, procs, input, output, serverTiles, tileDir, sampleTar, newFiles, call, missing, hist>>

\* The files the loop over os.listdir("new_files") renames: all of them for
\* "laz" (lines 230-231), all but those ending in json otherwise (239-244).
FilesToRename(type, directory) ==
    IF type = "laz" THEN directory.names ELSE directory.names \ {SidecarName}

\* fix_atlas, lines 225-231, 234-244, 247-257: makedirs and the renames.  A
\* rename that raises (the cache on another device, a full disk) ends the
\* loop after the files renamed so far; the sidecar may have been removed
\* before it.
FixAtlasMove ==
    /\ pc = "move"
    /\ \E renamed \in SUBSET FilesToRename(call.type, newFiles), sidecar_first \in BOOLEAN :
         /\ tileDir' = [tileDir EXCEPT ![call.type] = @ \cup renamed]
         /\ IF renamed = FilesToRename(call.type, newFiles)
            THEN /\ newFiles' = EmptyDir
                 /\ pc' = "cleanup"
                 /\ outcome' = "running"
            ELSE /\ newFiles' =
                      IF call.type # "laz" /\ sidecar_first
                      THEN [names |-> (newFiles.names \ renamed) \ {SidecarName},
                            coords |-> {}]
                      ELSE [names |-> newFiles.names \ renamed, coords |-> newFiles.coords]
                 /\ pc' = "idle"
                 /\ outcome' = "move_failed"
    /\ UNCHANGED <<serverVars, cacheVars, procs, input, output, serverTiles, atlasFile, sampleTar, call, missing, hist>>

\* fix_atlas, lines 258-260: sample.tar and new_files are removed.
FixAtlasCleanup ==
    /\ pc = "cleanup"
    /\ sampleTar' = NoArchive
    /\ pc' = "idle"
    /\ outcome' = "ok"
    /\ hist' = Hist("lastOk", call)
    /\ UNCHANGED <<serverVars, cacheVars, procs, input, output, serverTiles, atlasFile, tileDir, newFiles, call, missing>>

\* The server's operator rebuilds a dataset without one of its tiles.
ServerWithdrawsTile(type, f) ==
    /\ pc = "idle"
    /\ hist.serverChanges < MaxServerChanges
    /\ f \in serverTiles[type]
    /\ serverTiles' = [serverTiles EXCEPT ![type] = @ \ {f}]
    /\ hist' = [hist EXCEPT !.serverChanges = @ + 1, !.lastOk = NoRequest]
    /\ UNCHANGED <<serverVars, cacheVars, procs, input, output, atlasFile, tileDir, sampleTar, newFiles, pc, call, missing, outcome>>

Init ==
    /\ input = NoOutput
    /\ output = NoOutput
    /\ serverTiles = [t \in Types |-> TileNames(t)]
    /\ ClientFresh
    /\ ProcsFresh
    /\ ServerFresh

Next ==
    \/ \E type \in Types : \E bbox \in Queries(type) : GetMissingFiles(type, bbox)
    \/ Decline
    \/ DownloadMissingFiles
    \/ FixAtlasExtract
    \/ FixAtlasUpdate
    \/ FixAtlasMove
    \/ FixAtlasCleanup
    \/ \E type \in Types : \E f \in TileNames(type) : ServerWithdrawsTile(type, f)

Spec == Init /\ [][Next]_vars

(***************************************************************************)
(* Properties of the reconcile                                             *)
(***************************************************************************)

\* The filenames an atlas file references.
Referenced(file) == {t.filename : t \in AtlasTiles(LoadAtlas(file))}

\* The filenames the local atlas query returns for a bounding box.
LocalQuery(file, bbox) ==
    LET r == find_files(LoadAtlas(file), bbox)
    IN IF r.raised THEN {} ELSE SeqToSet(r.list)

\* C2: the filenames a reconcile sends to the batch endpoint are exactly
\* ServerSet \ LocalSet.
C2_RequestIsServerMinusLocal ==
    hist.requested # {} => hist.requested = hist.server_files \ hist.local_files

\* C3: a reconcile never requests a filename the local atlas returned for
\* the bounding box, nor one that is a file of the dataset's cache directory.
C3_NeverRequestsWhatItHas ==
    hist.requested # {} =>
        hist.requested \cap (hist.local_files \cup hist.tileDirAtStart[call.type]) = {}

\* C4: between reconciles, whatever way the last one ended, every filename
\* the local atlas of a dataset references is in that dataset's tile directory.
C4_ReferencedFilesExist ==
    pc = "idle" => \A t \in Types : Referenced(atlasFile[t]) \subseteq tileDir[t]

\* C5: a reconcile that repeats the call of the successful reconcile before
\* it, with no server change between, requests no download and leaves the
\* atlas and the tile directory as they were.
C5_RepeatedReconcileIsIdle ==
    hist.repeat =>
        /\ hist.requested = {}
        /\ atlasFile = hist.atlasAtStart
        /\ tileDir = hist.tileDirAtStart

\* C6: after a reconcile has downloaded its Missing files and finished, every
\* one of them is referenced by the local atlas and returned by the local
\* atlas query for the same bounding box.
C6_MissingBecomesLocal ==
    (outcome = "ok" /\ hist.requested = SeqToSet(missing)) =>
        /\ SeqToSet(missing) \subseteq Referenced(atlasFile[call.type])
        /\ SeqToSet(missing) \subseteq LocalQuery(atlasFile[call.type], call.bbox)

C10_FailedExtractionKeepsAtlas ==
    outcome \in {"extract_failed", "update_failed"} => atlasFile = hist.atlasAtStart

\* A LAZ reconcile that fails in its update after an earlier one has written
\* the atlas.
C10_Witness ==
    /\ outcome = "update_failed"
    /\ call.type = "laz"
    /\ atlasFile["laz"].exists
    /\ newFiles.names \cap LazNames # {}

(***************************************************************************)
(* atlas/checker.py: two reconciles running at once in one working         *)
(* directory.  Each takes the steps of get_missing_files at the places     *)
(* where it reads or writes a shared file: the atlas files, sample.tar and *)
(* new_files.  Nothing in checker.py or utils.py takes a lock.             *)
(***************************************************************************)
Proc(p, field, value) == [procs EXCEPT ![p][field] = value]

Ended(p, how) == [procs EXCEPT ![p].pc = "done", ![p].outcome = how]

\* get_missing_files, lines 174-196: discovery, the local atlas query and
\* files_to_send.
CStart(p, type, bbox) ==
    /\ procs[p].pc = "idle"
    /\ LET response == process_bounding_box(type, bbox, serverTiles[type])
           local == find_files(LoadAtlas(atlasFile[type]), bbox)
           started == [procs[p] EXCEPT !.type = type, !.bbox = bbox]
       IN IF response.status # 200 \/ local.raised
          THEN procs' = [procs EXCEPT ![p] = [started EXCEPT !.pc = "done",
                                                              !.outcome = "raised"]]
          ELSE LET missing_files == files_to_send(SeqToSet(local.list),
                                                  SeqToSet(response.received_points))
               IN procs' = [procs EXCEPT ![p] =
                     [started EXCEPT !.missing = missing_files,
                                     !.pc = IF missing_files = <<>> THEN "done"
                                            ELSE "download",
                                     !.outcome = IF missing_files = <<>> THEN "up_to_date"
                                                 ELSE "running"]]
    /\ UNCHANGED <<pureVars, clientVars, serverVars>>

\* download_missing_files, lines 153-165: the response is written to sample.tar.
CDownload(p) ==
    /\ procs[p].pc = "download"
    /\ LET r == ServerDownload(procs[p].type, SeqToSet(procs[p].missing),
                               serverTiles[procs[p].type])
       IN IF r.status # 200
          THEN procs' = Ended(p, "raised") /\ UNCHANGED sampleTar
          ELSE /\ sampleTar' = r.archive
               /\ procs' = [procs EXCEPT ![p].pc = "extract",
                                         ![p].downloaded = r.archive.names]
    /\ UNCHANGED <<pureVars, serverVars, cacheVars, serverTiles, atlasFile, tileDir, newFiles, pc, call,
                   missing, outcome, hist>>

\* fix_atlas, lines 221-222: whatever sample.tar holds now goes to new_files.
CExtract(p) ==
    /\ procs[p].pc = "extract"
    /\ IF sampleTar.state # "complete"
       THEN procs' = Ended(p, "raised") /\ UNCHANGED newFiles
       ELSE /\ newFiles' = [names |-> newFiles.names \cup sampleTar.names,
                            coords |-> IF SidecarName \in sampleTar.names
                                       THEN sampleTar.coords ELSE newFiles.coords]
            /\ procs' = [procs EXCEPT ![p].pc = "update_read",
                                      ![p].extracted = sampleTar.names]
    /\ UNCHANGED <<pureVars, serverVars, cacheVars, serverTiles, atlasFile, tileDir, sampleTar, pc, call,
                   missing, outcome, hist>>

\* The first half of update_laz_atlas (lines 32-50) and update_gpkg_atlas
\* (lines 68-87): the atlas file and the new entries are read into memory.
\* new_files without a name in it is a directory another reconcile has
\* removed: os.listdir and the open of the sidecar raise.
CUpdateRead(p) ==
    /\ procs[p].pc = "update_read"
    /\ LET type == procs[p].type
       IN IF newFiles.names = {} \/ (type # "laz" /\ SidecarName \notin newFiles.names)
          THEN procs' = Ended(p, "raised")
          ELSE procs' = [procs EXCEPT
                 ![p].pc = "update_write",
                 ![p].data = LoadAtlas(atlasFile[type]),
                 ![p].entries =
                     IF type = "laz"
                     THEN {LocalLazEntry(f) : f \in newFiles.names \cap LazNames}
                     ELSE {LocalGpkgEntry(item) : item \in newFiles.coords}]
    /\ UNCHANGED <<pureVars, clientVars, serverVars>>

\* The second half (lines 51-58, 88-94): what was read is sorted and written.
CUpdateWrite(p) ==
    /\ procs[p].pc = "update_write"
    /\ atlasFile' = [atlasFile EXCEPT ![procs[p].type] =
                        WrittenAtlas(MergeEntries(procs[p].data, procs[p].entries))]
    /\ procs' = [procs EXCEPT ![p].pc = "move", ![p].wrote = TRUE]
    /\ UNCHANGED <<pureVars, serverVars, cacheVars, serverTiles, tileDir, sampleTar, newFiles, pc, call,
                   missing, outcome, hist>>

\* fix_atlas, lines 225-231, 234-244, 247-257: the files new_files holds now
\* are renamed into the tile directory of this reconcile's dataset.
CMove(p) ==
    /\ procs[p].pc = "move"
    /\ IF newFiles.names = {}
       THEN procs' = Ended(p, "raised") /\ UNCHANGED <<tileDir, newFiles>>
       ELSE /\ tileDir' = [tileDir EXCEPT ![procs[p].type] =
                              @ \cup FilesToRename(procs[p].type, newFiles)]
            /\ newFiles' = EmptyDir
            /\ procs' = Proc(p, "pc", "cleanup")
    /\ UNCHANGED <<pureVars, serverVars, cacheVars, serverTiles, atlasFile, sampleTar, pc, call,
                   missing, outcome, hist>>

\* fix_atlas, lines 258-259: os.remove raises when sample.tar is gone,
\* os.removedirs when new_files is gone or has files again.
CCleanup(p) ==
    /\ procs[p].pc = "cleanup"
    /\ IF sampleTar.state = "absent"
       THEN procs' = Ended(p, "raised") /\ UNCHANGED sampleTar
       ELSE /\ sampleTar' = NoArchive
            /\ procs' = Ended(p, IF newFiles.names = {} THEN "ok" ELSE "raised")
    /\ UNCHANGED <<pureVars, serverVars, cacheVars, serverTiles, atlasFile, tileDir, newFiles, pc, call,
                   missing, outcome, hist>>

InitConcurrent == Init

NextConcurrent ==
    \E p \in Procs :
        \/ \E type \in Types : \E bbox \in Queries(type) : CStart(p, type, bbox)
        \/ CDownload(p)
        \/ CExtract(p)
        \/ CUpdateRead(p)
        \/ CUpdateWrite(p)
        \/ CMove(p)
        \/ CCleanup(p)

SpecConcurrent == InitConcurrent /\ [][NextConcurrent]_vars

\* C11: when two reconciles of one dataset have both written the atlas, the
\* atlas references the entries each of them wrote.
C11_NoLostUpdate ==
    \A p \in Procs, q \in Procs :
        (procs[p].wrote /\ procs[q].wrote /\ procs[p].type = procs[q].type) =>
            {e.filename : e \in procs[p].entries} \subseteq
                Referenced(atlasFile[procs[p].type])

\* C12: of two reconciles for distinct datasets, each extracts the archive
\* it downloaded, and each dataset's tile directory and atlas hold only
\* tiles of that dataset.
C12_DistinctDatasetsApart ==
    (\A p \in Procs, q \in Procs : p # q => procs[p].type # procs[q].type) =>
        /\ \A p \in Procs : procs[p].extracted # {} =>
               procs[p].extracted = procs[p].downloaded
        /\ \A t \in Types : tileDir[t] \subseteq TileNames(t)
        /\ \A t \in Types : Referenced(atlasFile[t]) \subseteq TileNames(t)

(***************************************************************************)
(* server-lidar-gpkg-ssh-merged.py: tokens and the auth middleware         *)
(***************************************************************************)
TOKEN_TTL_SECONDS == 3600

Usernames == {"alice", "bob"}

\* The values secrets.token_hex(16) gives in a run, and a string it never gave.
TokenPool == {"3f9a", "c07e"}
ForgedToken == "0000"

\* The instants at which the server is called.
AuthInstants == {0, 1, 3600, 3601, 7201}

Put(dict, key, value) ==
    [k \in DOMAIN dict \cup {key} |-> IF k = key THEN value ELSE dict[k]]

Del(dict, key) == [k \in DOMAIN dict \ {key} |-> dict[k]]

\* A generator that may repeat a token it has given before.
token_hex_repeating(given) == TokenPool

\* secrets.token_hex(16): 128 random bits, a value not given before.
token_hex(given) == TokenPool \ given

\* issue_token: the dictionary after the call.
issue_token(tokens, t, username, token) ==
    Put(tokens, token, <<t + TOKEN_TTL_SECONDS, username>>)

\* A validation that does not look at the expiry.
validate_token_no_expiry(tokens, t, token) ==
    [result |-> token \in DOMAIN tokens, tokens |-> tokens]

\* validate_token: its result, and the dictionary after the eager delete.
validate_token(tokens, t, token) ==
    IF token \notin DOMAIN tokens THEN [result |-> FALSE, tokens |-> tokens]
    ELSE LET exp == tokens[token][1]
         IN IF t > exp THEN [result |-> FALSE, tokens |-> Del(tokens, token)]
            ELSE [result |-> TRUE, tokens |-> tokens]

get_token_user(tokens, token) ==
    IF token \in DOMAIN tokens THEN tokens[token][2] ELSE "None"

unprotected ==
    {"/", "/auth/token", "/auth/github", "/access/request", "/healthz", "/docs",
     "/openapi.json", "/redoc"}

\* A middleware that reads the ENABLE_AUTH flag the wrong way round.
passes_unauthenticated_inverted(path, enable_auth) == path \in unprotected \/ enable_auth

\* auth_middleware, line 316.
passes_unauthenticated(path, enable_auth) == path \in unprotected \/ ~enable_auth

\* The Authorization headers of the study: absent, or a scheme, a token and
\* whether blanks surround the token.
NoHeader == [scheme |-> "none", token |-> "", padded |-> FALSE]
Headers ==
    {NoHeader} \cup
    [scheme : {"Bearer"}, token : TokenPool \cup {ForgedToken}, padded : {FALSE}] \cup
    [scheme : {"Bearer", "bearer", "Basic"}, token : {"3f9a"}, padded : {TRUE}]

\* auth_header.startswith("Bearer ") and auth_header[len("Bearer "):].strip()
starts_with_bearer(header) == header.scheme = "Bearer"
bearer_token(header) == header.token

RequestPaths == {"/", "/healthz", "/docs", "/docs/", "/files/lidar/a.laz", "/gpkg/tiles"}

InitAuth ==
    /\ input \in [ENABLE_AUTH : BOOLEAN]
    /\ output = NoOutput
    /\ serverTiles = [t \in Types |-> {}]
    /\ ClientFresh
    /\ ProcsFresh
    /\ ServerFresh

AuthFrame == UNCHANGED <<input, clientVars, procs, rate_log, admitted, AR_IP_LOG,
                         AR_EMAIL_LOG, requests_jsonl, intakeVars, backendVars>>

\* time.time() moves on between calls.
AuthTick ==
    /\ \E t \in AuthInstants : t > now /\ now' = t
    /\ UNCHANGED <<output, TOKENS, issued>>
    /\ AuthFrame

\* create_token (POST /auth/token): ssh_authenticate decides.
CreateToken(username, ssh_ok) ==
    /\ IF ~input.ENABLE_AUTH
       THEN /\ output' = [kind |-> "create_token", status |-> 200, token |-> "anonymous"]
            /\ UNCHANGED <<TOKENS, issued>>
       ELSE IF ssh_ok
       THEN \E token \in token_hex(DOMAIN issued) :
              /\ TOKENS' = issue_token(TOKENS, now, username, token)
              /\ issued' = IF token \in DOMAIN issued THEN issued
                           ELSE Put(issued, token, [at |-> now, username |-> username])
              /\ output' = [kind |-> "create_token", status |-> 200, token |-> token]
       ELSE /\ output' = [kind |-> "create_token", status |-> 401, token |-> ""]
            /\ UNCHANGED <<TOKENS, issued>>
    /\ UNCHANGED now
    /\ AuthFrame

\* A call of validate_token followed by get_token_user.
ValidateToken(token) ==
    /\ LET v == validate_token(TOKENS, now, token)
       IN /\ TOKENS' = v.tokens
          /\ output' = [kind |-> "validate", token |-> token, at |-> now,
                        result |-> v.result, user |-> get_token_user(v.tokens, token)]
    /\ UNCHANGED <<now, issued>>
    /\ AuthFrame

\* auth_middleware: a request either goes on to its handler or is answered 401.
AuthMiddleware(path, header) ==
    /\ IF passes_unauthenticated(path, input.ENABLE_AUTH)
       THEN /\ output' = [kind |-> "request", path |-> path, header |-> header, at |-> now,
                          handled |-> TRUE, status |-> 200]
            /\ UNCHANGED TOKENS
       ELSE IF ~starts_with_bearer(header)
       THEN /\ output' = [kind |-> "request", path |-> path, header |-> header, at |-> now,
                          handled |-> FALSE, status |-> 401]
            /\ UNCHANGED TOKENS
       ELSE LET v == validate_token(TOKENS, now, bearer_token(header))
            IN /\ TOKENS' = v.tokens
               /\ output' = [kind |-> "request", path |-> path, header |-> header, at |-> now,
                             handled |-> v.result,
                             status |-> IF v.result THEN 200 ELSE 401]
    /\ UNCHANGED <<now, issued>>
    /\ AuthFrame

NextAuth ==
    \/ AuthTick
    \/ \E username \in Usernames, ssh_ok \in BOOLEAN : CreateToken(username, ssh_ok)
    \/ \E token \in TokenPool \cup {ForgedToken} : ValidateToken(token)
    \/ \E path \in RequestPaths, header \in Headers : AuthMiddleware(path, header)

SpecAuth == InitAuth /\ [][NextAuth]_vars

\* The token of a request was issued and has not expired at the request.
IssuedAndUnexpired(token, at) ==
    /\ token \in DOMAIN issued
    /\ at <= issued[token].at + TOKEN_TTL_SECONDS

\* C13: with authentication enabled, a request for a path outside the
\* public set reaches its handler only with a Bearer token that is valid at
\* that moment, and is answered 401 otherwise.
C13_ProtectedPathsNeedToken ==
    (/\ output.kind = "request"
     /\ input.ENABLE_AUTH
     /\ output.path \notin {"/healthz", "/", "/auth/token", "/auth/github",
                            "/access/request", "/docs", "/openapi.json", "/redoc"}) =>
        IF output.header.scheme = "Bearer"
           /\ IssuedAndUnexpired(output.header.token, output.at)
        THEN output.handled
        ELSE ~output.handled /\ output.status = 401

\* A protected request that a valid token let through.
C13_Witness ==
    /\ output.kind = "request"
    /\ input.ENABLE_AUTH
    /\ output.path = "/files/lidar/a.laz"
    /\ output.handled
    /\ output.at = 3600

\* C14: validate_token succeeds only for a token issue_token made, and only
\* up to its expiry.
C14_OnlyIssuedUnexpiredValidate ==
    (output.kind = "validate" /\ output.result) =>
        IssuedAndUnexpired(output.token, output.at)

\* An expired token, a token at its last valid instant and a forged one.
C14_Witness ==
    /\ output.kind = "validate"
    /\ output.token \in DOMAIN issued
    /\ output.at = issued[output.token].at + TOKEN_TTL_SECONDS + 1
    /\ ~output.result

\* C15: a token that validates is bound to the username it was issued for.
C15_TokenIdentityFixed ==
    (output.kind = "validate" /\ output.result) =>
        /\ output.token \in DOMAIN issued
        /\ output.user = issued[output.token].username

\* A token validates for its user after a token was issued to the other
\* user and the first user's earlier token expired.
C15_Witness ==
    /\ output.kind = "validate"
    /\ output.result
    /\ Cardinality(DOMAIN issued) = 2
    /\ \E other \in DOMAIN issued : issued[other].username # output.user

(***************************************************************************)
(* server-lidar-gpkg-ssh-merged.py: safe_join and the single-file fetch    *)
(***************************************************************************)
MaxDepth == 3       \* most components of a requested filename

\* The names a path is made of, and the characters of each.
PathNames == {"a", "s", "l", "de", "x", "..", ".", "a..z"}

Chars(name) ==
    CASE name = "a" -> <<"a">>
      [] name = "s" -> <<"s">>
      [] name = "l" -> <<"l">>
      [] name = "d" -> <<"d">>
      [] name = "g" -> <<"g">>
      [] name = "de" -> <<"d", "e">>
      [] name = "x" -> <<"x">>
      [] name = ".." -> <<".", ".">>
      [] name = "." -> <<".">>
      [] name = "a..z" -> <<"a", ".", ".", "z">>

\* A path is the list of its components from the root; its string starts
\* every component with os.sep.
RECURSIVE PathStr(_)
PathStr(path) ==
    IF path = <<>> THEN <<>> ELSE <<"/">> \o Chars(Head(path)) \o PathStr(Tail(path))

\* str.startswith on two strings.
startswith(str, prefix) ==
    Len(prefix) <= Len(str) /\ SubSeq(str, 1, Len(prefix)) = prefix

\* The server's disk: the two data directories /d and /g, the directory /de
\* beside them, and in each data directory a link l to /de.
LAZ_DIRECTORY == <<"d">>
GPKG_DATA_DIRECTORY == <<"g">>

Files ==
    {<<"d", "a">>, <<"d", "a..z">>, <<"d", "s", "a">>,
     <<"g", "a">>, <<"g", "a..z">>, <<"g", "s", "a">>,
     <<"de", "x">>, <<"x">>}

Directories == {<<>>, <<"d">>, <<"d", "s">>, <<"g">>, <<"g", "s">>, <<"de">>}

readlink(path) ==
    IF path \in {<<"d", "l">>, <<"g", "l">>} THEN <<"de">> ELSE path

\* os.path.realpath: "." and empty components dropped, ".." one level up,
\* links followed.
RECURSIVE realpath_loop(_, _)
realpath_loop(done, rest) ==
    IF rest = <<>> THEN done
    ELSE IF Head(rest) = "." THEN realpath_loop(done, Tail(rest))
    ELSE IF Head(rest) = ".."
    THEN realpath_loop(IF done = <<>> THEN <<>> ELSE SubSeq(done, 1, Len(done) - 1),
                       Tail(rest))
    ELSE realpath_loop(readlink(Append(done, Head(rest))), Tail(rest))

realpath(path) == realpath_loop(<<>>, path)

\* os.path.join(base, filename): an absolute filename replaces the base.
path_join(base, filename) ==
    IF filename.absolute THEN filename.parts ELSE base \o filename.parts

SafeJoinError == [raised |-> TRUE, status |-> 400, target |-> <<>>]
SafeJoinPath(target) == [raised |-> FALSE, status |-> 200, target |-> target]

\* A safe_join that compares with the base without the separator.
safe_join_bare_prefix(base_dir, filename) ==
    LET base == realpath(base_dir)
        target == realpath(path_join(base, filename))
    IN IF ~startswith(PathStr(target), PathStr(base)) /\ target # base
       THEN SafeJoinError
       ELSE SafeJoinPath(target)

safe_join(base_dir, filename) ==
    LET base == realpath(base_dir)
        target == realpath(path_join(base, filename))
    IN IF ~startswith(PathStr(target), PathStr(base) \o <<"/">>) /\ target # base
       THEN SafeJoinError
       ELSE SafeJoinPath(target)

\* get_lidar_file and get_gpkg_file: 400 from safe_join, 404 for a path that
\* does not exist, else the file is served; FileResponse fails on a directory.
get_file(directory, filename) ==
    LET joined == safe_join(directory, filename)
    IN IF joined.raised THEN [status |-> 400, served |-> FALSE, path |-> <<>>]
       ELSE IF joined.target \notin Files \cup Directories
       THEN [status |-> 404, served |-> FALSE, path |-> joined.target]
       ELSE IF joined.target \in Directories
       THEN [status |-> 500, served |-> FALSE, path |-> joined.target]
       ELSE [status |-> 200, served |-> TRUE, path |-> joined.target]

get_lidar_file(filename) == get_file(LAZ_DIRECTORY, filename)
get_gpkg_file(filename) == get_file(GPKG_DATA_DIRECTORY, filename)

Filenames ==
    [absolute : BOOLEAN,
     parts : UNION {[1..n -> PathNames] : n \in 1..MaxDepth}]

InitFetch ==
    /\ input \in [kind : {"lidar", "gpkg"}, filename : Filenames]
    /\ output = NoOutput
    /\ serverTiles = [t \in Types |-> {}]
    /\ ClientFresh
    /\ ProcsFresh
    /\ ServerFresh

ApplyGetLidarFile ==
    /\ input.kind = "lidar"
    /\ output = NoOutput
    /\ output' = [kind |-> "fetch", base |-> LAZ_DIRECTORY,
                  response |-> get_lidar_file(input.filename)]
    /\ UNCHANGED <<input, clientVars, serverVars, procs>>

ApplyGetGpkgFile ==
    /\ input.kind = "gpkg"
    /\ output = NoOutput
    /\ output' = [kind |-> "fetch", base |-> GPKG_DATA_DIRECTORY,
                  response |-> get_gpkg_file(input.filename)]
    /\ UNCHANGED <<input, clientVars, serverVars, procs>>

NextFetch == ApplyGetLidarFile \/ ApplyGetGpkgFile

SpecFetch == InitFetch /\ [][NextFetch]_vars

\* A path is the directory or lies below it, component by component.
Within(path, directory) ==
    Len(path) >= Len(directory) /\ SubSeq(path, 1, Len(directory)) = directory

\* C16: a file is served only from a path within the data directory, and a
\* filename whose resolution escapes the directory is answered 400.
C16_ServedPathInsideDirectory ==
    output.kind = "fetch" =>
        /\ output.response.served => Within(output.response.path, output.base)
        /\ ~Within(realpath(path_join(output.base, input.filename)), output.base) =>
               (output.response.status = 400 /\ ~output.response.served)

\* A filename that resolves, through "..", into the directory whose name
\* starts with the data directory's name.
C16_Witness ==
    /\ output.kind = "fetch"
    /\ input.kind = "lidar"
    /\ input.filename = [absolute |-> FALSE, parts |-> <<"..", "de", "x">>]
    /\ output.response.status = 400

\* The name contains "..", or more than one component, or starts at the root.
HasDotDotOrSeparator(filename) ==
    \/ filename.absolute
    \/ Len(filename.parts) > 1
    \/ \E i \in 1..Len(filename.parts) :
         LET c == Chars(filename.parts[i])
         IN \E j \in 1..(Len(c) - 1) : c[j] = "." /\ c[j + 1] = "."

\* C17: a fetch whose filename contains ".." or a directory separator is
\* answered 400, also when it resolves inside the data directory.
C17_DotDotAndSeparatorsRejected ==
    (output.kind = "fetch" /\ HasDotDotOrSeparator(input.filename)) =>
        output.response.status = 400

(***************************************************************************)
(* The rate limiter.  create_app (server-lidar-gpkg-ssh-merged.py lines    *)
(* 343-350) installs rate_limiter.create_rate_limit_middleware; the module *)
(* rate_limiter is not among the sources, so the limiter itself follows    *)
(* section 4.C of the specification: ordered timestamp lists per key,      *)
(* pruned on each admission, overflow answered 429.                        *)
(***************************************************************************)
MaxRequests == 7    \* most requests the limiter admits in a run

RATE_REQ_LIMIT == 5
RATE_TIME_WINDOW == 30
RATE_GLOBAL_LIMIT == 20

SourceIPs == {"10.0.0.1", "10.0.0.2"}

RateInstants == {0, 30, 31}

\* A call that hands the global limit over as the per-client limit too.
rate_limit_arguments_global_only ==
    [request_limit |-> RATE_GLOBAL_LIMIT, time_window |-> RATE_TIME_WINDOW,
     global_request_limit |-> RATE_GLOBAL_LIMIT]

\* The keyword arguments of create_rate_limit_middleware in create_app.
rate_limit_arguments ==
    [request_limit |-> RATE_REQ_LIMIT, time_window |-> RATE_TIME_WINDOW,
     global_request_limit |-> RATE_GLOBAL_LIMIT]

\* create_app, line 344: the middleware is added if the import worked and
\* ENABLE_RATE_LIMIT is set.
rate_limit_installed(config) == config.importable /\ config.ENABLE_RATE_LIMIT

Get(dict, key) == IF key \in DOMAIN dict THEN dict[key] ELSE <<>>

\* The timestamps of a list that lie in the window ending now.
in_window(entries, t, window) == SelectSeq(entries, LAMBDA e : t - e <= window)

\* All timestamps the limiter holds that lie in the window.
RECURSIVE global_count(_, _, _, _)
global_count(log, keys, t, window) ==
    IF keys = {} THEN 0
    ELSE LET k == CHOOSE k \in keys : TRUE
         IN Len(in_window(log[k], t, window)) + global_count(log, keys \ {k}, t, window)

\* The limiter's decision for a request of one source, and its lists after.
rate_limit(log, ip, t, args) ==
    LET entries == in_window(Get(log, ip), t, args.time_window)
    IN IF Len(entries) >= args.request_limit
          \/ global_count(log, DOMAIN log, t, args.time_window) >= args.global_request_limit
       THEN [status |-> 429, log |-> log]
       ELSE [status |-> 200, log |-> Put(log, ip, Append(entries, t))]

InitRate ==
    /\ input \in [importable : BOOLEAN, ENABLE_RATE_LIMIT : BOOLEAN]
    /\ output = NoOutput
    /\ serverTiles = [t \in Types |-> {}]
    /\ ClientFresh
    /\ ProcsFresh
    /\ ServerFresh

RateFrame == UNCHANGED <<input, clientVars, procs, TOKENS, issued, AR_IP_LOG, AR_EMAIL_LOG,
                         requests_jsonl, intakeVars, backendVars>>

RateTick ==
    /\ \E t \in RateInstants : t > now /\ now' = t
    /\ UNCHANGED <<output, rate_log, admitted>>
    /\ RateFrame

\* A request arrives at the rate-limit middleware.
RateRequest(ip) ==
    /\ Len(admitted) < MaxRequests
    /\ IF ~rate_limit_installed(input)
       THEN /\ output' = [kind |-> "rate", ip |-> ip, at |-> now, status |-> 200]
            /\ admitted' = Append(admitted, [ip |-> ip, at |-> now])
            /\ UNCHANGED rate_log
       ELSE LET r == rate_limit(rate_log, ip, now, rate_limit_arguments)
            IN /\ output' = [kind |-> "rate", ip |-> ip, at |-> now, status |-> r.status]
               /\ rate_log' = r.log
               /\ admitted' = IF r.status = 200
                              THEN Append(admitted, [ip |-> ip, at |-> now])
                              ELSE admitted
    /\ UNCHANGED now
    /\ RateFrame

NextRate == RateTick \/ \E ip \in SourceIPs : RateRequest(ip)

SpecRate == InitRate /\ [][NextRate]_vars

\* The requests of a source admitted in the window that ends now.
AdmittedInWindow(ip) ==
    {i \in 1..Len(admitted) :
        admitted[i].ip = ip /\ now - admitted[i].at <= RATE_TIME_WINDOW}

\* All requests admitted in the window that ends now.
AllAdmittedInWindow ==
    {i \in 1..Len(admitted) : now - admitted[i].at <= RATE_TIME_WINDOW}

MaxSubmissions == 6    \* most access requests written to requests.jsonl in a run

ACCESS_REQ_WINDOW_SECONDS == 3600
ACCESS_REQ_MIN_INTERVAL_SECONDS == 30
ACCESS_REQ_MAX_PER_IP == 5
ACCESS_REQ_MAX_PER_EMAIL == 3
ACCESS_REQ_MAX_BODY_BYTES == 2048

AccessInstants == {0, 29, 30, 60, 90, 120, 3600, 3601}

Letters == {"a", "b", "n", "o", "x", "A", "O", "X"}
DigitChars == {"1"}

\* str.lower, character by character.
lower_char(c) ==
    CASE c = "A" -> "a"
      [] c = "O" -> "o"
      [] c = "X" -> "x"
      [] OTHER -> c

lower(str) == [i \in DOMAIN str |-> lower_char(str[i])]

RECURSIVE lstrip(_)
lstrip(str) == IF str # <<>> /\ Head(str) = " " THEN lstrip(Tail(str)) ELSE str

RECURSIVE rstrip(_)
rstrip(str) ==
    IF str # <<>> /\ str[Len(str)] = " " THEN rstrip(SubSeq(str, 1, Len(str) - 1)) ELSE str

strip(str) == rstrip(lstrip(str))

count(str, c) == Cardinality({i \in DOMAIN str : str[i] = c})

_valid_email(email) ==
    IF Len(email) > 254 \/ count(email, " ") > 0 THEN FALSE
    ELSE IF count(email, "@") # 1 THEN FALSE
    ELSE LET at == CHOOSE i \in DOMAIN email : email[i] = "@"
             local == SubSeq(email, 1, at - 1)
             domain == SubSeq(email, at + 1, Len(email))
         IN ~(\/ local = <<>>
              \/ domain = <<>>
              \/ Head(domain) = "."
              \/ domain[Len(domain)] = "."
              \/ count(domain, ".") = 0)

\* _NAME_RE: 2 to 100 letters, apostrophes, spaces and hyphens.
_valid_name(str) ==
    /\ Len(str) >= 2
    /\ Len(str) <= 100
    /\ \A i \in DOMAIN str : str[i] \in Letters \cup {"'", " ", "-"}

\* _GH_USERNAME_RE: a letter or digit, then up to 38 letters, digits, or
\* hyphens each followed by a letter or digit.
_valid_github_username(str) ==
    /\ Len(str) >= 1
    /\ Len(str) <= 39
    /\ str[1] \in Letters \cup DigitChars
    /\ \A i \in 2..Len(str) :
          \/ str[i] \in Letters \cup DigitChars
          \/ str[i] = "-" /\ i < Len(str) /\ str[i + 1] \in Letters \cup DigitChars

NoClient == "None"
ClientHosts == {"10.0.0.1", NoClient}

\* getattr(request.client, "host", None) or "unknown"
client_ip_of(host) == IF host = NoClient THEN "unknown" ELSE host

Names == {<<"A", "n">>, <<"A">>, <<"A", "1">>}
Emails == {<<"a", "@", "x", ".", "o">>,
           <<" ", "A", "@", "X", ".", "o", " ">>,
           <<"b", "@", "x", ".", "o">>,
           <<"a", "@", "x">>,
           <<"a", " ", "b", "@", "x", ".", "o">>}
GithubUsernames == {<<"a", "-", "b">>, <<"a", "-">>}
ContentLengths == {100, 2049}

AccessRequest(name, email, github_username) ==
    [name |-> name, surname |-> <<"A", "n">>, email |-> email,
     github_username |-> github_username]

\* Well-formed requests, and requests with one malformed field.
AccessRequests ==
    {AccessRequest(<<"A", "n">>, e, <<"a", "-", "b">>) : e \in Emails}
    \cup {AccessRequest(n, <<"a", "@", "x", ".", "o">>, <<"a", "-", "b">>) : n \in Names}
    \cup {AccessRequest(<<"A", "n">>, <<"a", "@", "x", ".", "o">>, g) : g \in GithubUsernames}

\* The timestamps of a throttle list inside the window.
prune(entries, t) == SelectSeq(entries, LAMBDA e : t - e <= ACCESS_REQ_WINDOW_SECONDS)

\* An interval test that also refuses a submission exactly the interval late.
interval_hit_inclusive(entries, t) ==
    entries # <<>> /\ t - entries[Len(entries)] <= ACCESS_REQ_MIN_INTERVAL_SECONDS

interval_hit(entries, t) ==
    entries # <<>> /\ t - entries[Len(entries)] < ACCESS_REQ_MIN_INTERVAL_SECONDS

\* A window test that lets one more through.
window_hit_off_by_one(entries, max) == Len(entries) > max

window_hit(entries, max) == Len(entries) >= max

Throttled(detail, ip_log, email_log) ==
    [status |-> 429, detail |-> detail, ip_log |-> ip_log, email_log |-> email_log]

\* A throttle that stores the source's list before it looks at the email's.
throttle_ip_first(ip_log, email_log, client_ip, key, t) ==
    LET entries_ip == prune(Get(ip_log, client_ip), t)
        entries_email == prune(Get(email_log, key), t)
        stored == Put(ip_log, client_ip, Append(entries_ip, t))
    IN IF interval_hit(entries_ip, t) THEN Throttled("ip interval", ip_log, email_log)
       ELSE IF window_hit(entries_ip, ACCESS_REQ_MAX_PER_IP)
       THEN Throttled("ip window", ip_log, email_log)
       ELSE IF interval_hit(entries_email, t) THEN Throttled("email interval", stored, email_log)
       ELSE IF window_hit(entries_email, ACCESS_REQ_MAX_PER_EMAIL)
       THEN Throttled("email window", stored, email_log)
       ELSE [status |-> 200, detail |-> "", ip_log |-> stored,
             email_log |-> Put(email_log, key, Append(entries_email, t))]

\* Lines 598-620: the part of request_access under _AR_LOCK.
throttle(ip_log, email_log, client_ip, key, t) ==
    LET entries_ip == prune(Get(ip_log, client_ip), t)
        entries_email == prune(Get(email_log, key), t)
    IN IF interval_hit(entries_ip, t) THEN Throttled("ip interval", ip_log, email_log)
       ELSE IF window_hit(entries_ip, ACCESS_REQ_MAX_PER_IP)
       THEN Throttled("ip window", ip_log, email_log)
       ELSE IF interval_hit(entries_email, t) THEN Throttled("email interval", ip_log, email_log)
       ELSE IF window_hit(entries_email, ACCESS_REQ_MAX_PER_EMAIL)
       THEN Throttled("email window", ip_log, email_log)
       ELSE [status |-> 200, detail |-> "",
             ip_log |-> Put(ip_log, client_ip, Append(entries_ip, t)),
             email_log |-> Put(email_log, key, Append(entries_email, t))]

AccessResult(status, detail, ip_log, email_log, jsonl) ==
    [status |-> status, detail |-> detail, ip_log |-> ip_log, email_log |-> email_log,
     jsonl |-> jsonl]

\* request_access: the answer, and the throttle lists and requests.jsonl after.
request_access(ip_log, email_log, jsonl, req, host, hdr_len, t, writable) ==
    LET est_size == Len(req.name) + Len(req.surname) + Len(req.email)
                    + Len(req.github_username)
        name == strip(req.name)
        surname == strip(req.surname)
        email == strip(req.email)
        gh == strip(req.github_username)
        client_ip == client_ip_of(host)
        Rejected(status, detail) == AccessResult(status, detail, ip_log, email_log, jsonl)
    IN IF hdr_len # 0 /\ hdr_len > ACCESS_REQ_MAX_BODY_BYTES
       THEN Rejected(413, "Request too large")
       ELSE IF est_size > ACCESS_REQ_MAX_BODY_BYTES THEN Rejected(413, "Request too large")
       ELSE IF ~_valid_name(name) THEN Rejected(400, "Invalid name")
       ELSE IF ~_valid_name(surname) THEN Rejected(400, "Invalid surname")
       ELSE IF ~_valid_email(email) THEN Rejected(400, "Invalid email address")
       ELSE IF ~_valid_github_username(gh) THEN Rejected(400, "Invalid GitHub username")
       ELSE LET th == throttle(ip_log, email_log, client_ip, lower(email), t)
            IN IF th.status = 429
               THEN AccessResult(429, th.detail, th.ip_log, th.email_log, jsonl)
               ELSE IF ~writable
               THEN AccessResult(500, "Failed to persist request", th.ip_log, th.email_log,
                                 jsonl)
               ELSE AccessResult(200, "accepted", th.ip_log, th.email_log,
                                 Append(jsonl, [email |-> email, timestamp |-> t,
                                                remote_addr |-> client_ip]))

\* The runs studied: one source over more than a window, and two sources
\* over the minimum interval.
AccessRuns ==
    {[hosts |-> {"10.0.0.1"}, instants |-> AccessInstants],
     [hosts |-> ClientHosts, instants |-> {0, 29, 30}]}

InitAccess ==
    /\ input \in [writable : BOOLEAN, run : AccessRuns]
    /\ output = NoOutput
    /\ serverTiles = [t \in Types |-> {}]
    /\ ClientFresh
    /\ ProcsFresh
    /\ ServerFresh

AccessFrame == UNCHANGED <<input, clientVars, procs, TOKENS, issued, rate_log, admitted,
                           intakeVars, backendVars>>

AccessTick ==
    /\ \E t \in input.run.instants : t > now /\ now' = t
    /\ UNCHANGED <<output, AR_IP_LOG, AR_EMAIL_LOG, requests_jsonl>>
    /\ AccessFrame

\* POST /access/request
RequestAccess(req, host, hdr_len) ==
    /\ Len(requests_jsonl) < MaxSubmissions
    /\ host \in input.run.hosts
    /\ LET r == request_access(AR_IP_LOG, AR_EMAIL_LOG, requests_jsonl, req, host, hdr_len,
                               now, input.writable)
       IN /\ output' = [kind |-> "access", status |-> r.status, detail |-> r.detail]
          /\ AR_IP_LOG' = r.ip_log
          /\ AR_EMAIL_LOG' = r.email_log
          /\ requests_jsonl' = r.jsonl
    /\ UNCHANGED now
    /\ AccessFrame

NextAccess ==
    \/ AccessTick
    \/ \E req \in AccessRequests, host \in ClientHosts, hdr_len \in ContentLengths :
          RequestAccess(req, host, hdr_len)

SpecAccess == InitAccess /\ [][NextAccess]_vars

\* The source and the normalized email of a line of requests.jsonl.
SameSource(i, j) == requests_jsonl[i].remote_addr = requests_jsonl[j].remote_addr
SameEmail(i, j) ==
    lower(strip(requests_jsonl[i].email)) = lower(strip(requests_jsonl[j].email))

\* The accepted submissions related to submission i that lie in the window
\* ending with it.
InWindowBefore(i, Related(_, _)) ==
    {j \in DOMAIN requests_jsonl :
        /\ Related(i, j)
        /\ requests_jsonl[j].timestamp <= requests_jsonl[i].timestamp
        /\ requests_jsonl[i].timestamp - requests_jsonl[j].timestamp
              <= ACCESS_REQ_WINDOW_SECONDS}

\* C19: in any window of W_ar seconds at most M_ip submissions are accepted
\* per source and at most M_email per normalized email, and two accepted
\* submissions of one source or of one normalized email are at least I_ar
\* seconds apart.
C19_AcceptedWithinThrottle ==
    /\ \A i \in DOMAIN requests_jsonl :
          /\ Cardinality(InWindowBefore(i, SameSource)) <= ACCESS_REQ_MAX_PER_IP
          /\ Cardinality(InWindowBefore(i, SameEmail)) <= ACCESS_REQ_MAX_PER_EMAIL
    /\ \A i, j \in DOMAIN requests_jsonl :
          (i < j /\ (SameSource(i, j) \/ SameEmail(i, j))) =>
              requests_jsonl[j].timestamp - requests_jsonl[i].timestamp
                 >= ACCESS_REQ_MIN_INTERVAL_SECONDS

\* One source has M_ip submissions accepted, two of them under one email
\* written differently, and is refused at the end of the window.
C19_Witness ==
    /\ output.kind = "access"
    /\ output.status = 429
    /\ output.detail = "ip window"
    /\ now = ACCESS_REQ_WINDOW_SECONDS
    /\ Len(requests_jsonl) = ACCESS_REQ_MAX_PER_IP
    /\ \E i, j \in DOMAIN requests_jsonl :
          requests_jsonl[i].email # requests_jsonl[j].email /\ SameEmail(i, j)

\* C20: a request answered 400, 413 or 429 leaves requests.jsonl and both
\* throttle lists as they were.
C20_RejectedChangesNothing ==
    [][(output'.kind = "access" /\ output'.status \in {400, 413, 429}) =>
          UNCHANGED <<requests_jsonl, AR_IP_LOG, AR_EMAIL_LOG>>]_vars

\* A second source is refused for an email another source used less than
\* I_ar seconds before.
C20_Witness ==
    /\ output.kind = "access"
    /\ output.status = 429
    /\ output.detail = "email interval"
    /\ Len(requests_jsonl) = 1
    /\ DOMAIN AR_IP_LOG = {requests_jsonl[1].remote_addr}

(***************************************************************************)
(* The end of request_access, step by step: the record is appended         *)
(* (append_access_request, lines 170-176), then the GitHub issue is        *)
(* requested (create_github_access_issue, lines 179-225), then the answer  *)
(* is returned (lines 632-645).  The operating system writes the appended  *)
(* lines to stable storage when it chooses.                                *)
(***************************************************************************)
IntakeInstants == {0, 30}

\* What requests.post does: an answer with a status code, or an exception.
GithubReplies == {[kind |-> "response", status_code |-> 201],
                  [kind |-> "response", status_code |-> 403],
                  [kind |-> "exception", status_code |-> 0]}

\* The request bodies of this study: two well-formed ones and a malformed email.
IntakeRequests ==
    {AccessRequest(<<"A", "n">>, e, <<"a", "-", "b">>) :
        e \in {<<"a", "@", "x", ".", "o">>, <<"b", "@", "x", ".", "o">>, <<"a", "@", "x">>}}

IssueResult(posted, created, error, raised) ==
    [posted |-> posted, created |-> created, error |-> error, raised |-> raised]

\* An issue creation that lets the failure of the call reach its caller.
create_github_access_issue_raising(rec, token, reply) ==
    IF ~token THEN IssueResult(FALSE, FALSE, "missing token", FALSE)
    ELSE IF reply.kind = "exception" THEN IssueResult(TRUE, FALSE, "exception", TRUE)
    ELSE IF reply.status_code \in {200, 201} THEN IssueResult(TRUE, TRUE, "", FALSE)
    ELSE IssueResult(TRUE, FALSE, "http", TRUE)

create_github_access_issue(rec, token, reply) ==
    IF ~token THEN IssueResult(FALSE, FALSE, "missing token", FALSE)
    ELSE IF reply.kind = "exception" THEN IssueResult(TRUE, FALSE, "exception", FALSE)
    ELSE IF reply.status_code \in {200, 201} THEN IssueResult(TRUE, TRUE, "", FALSE)
    ELSE IssueResult(TRUE, FALSE, "http", FALSE)

\* append_access_request: open(file_path, "a"), write the line, close.  The
\* line is in the file; nothing forces it to stable storage.
append_access_request(jsonl, synced, rec) == [jsonl |-> Append(jsonl, rec), fsynced |-> synced]

InitIntake ==
    /\ input \in [writable : BOOLEAN, ACCESS_GITHUB_TOKEN : BOOLEAN]
    /\ output = NoOutput
    /\ serverTiles = [t \in Types |-> {}]
    /\ ClientFresh
    /\ ProcsFresh
    /\ ServerFresh

IntakeFrame == UNCHANGED <<input, clientVars, procs, TOKENS, issued, rate_log, admitted,
                           backendVars>>

IntakeTick ==
    /\ intake.pc = "idle"
    /\ \E t \in IntakeInstants : t > now /\ now' = t
    /\ UNCHANGED <<output, AR_IP_LOG, AR_EMAIL_LOG, requests_jsonl, intakeVars>>
    /\ IntakeFrame

\* request_access up to and including append_access_request (lines 569-635).
IntakePersist(req, host, hdr_len) ==
    /\ intake.pc = "idle"
    /\ Len(requests_jsonl) < MaxSubmissions
    /\ LET r == request_access(AR_IP_LOG, AR_EMAIL_LOG, requests_jsonl, req, host, hdr_len,
                               now, input.writable)
       IN /\ AR_IP_LOG' = r.ip_log
          /\ AR_EMAIL_LOG' = r.email_log
          /\ IF r.status = 200
             THEN LET rec == r.jsonl[Len(r.jsonl)]
                      file == append_access_request(requests_jsonl, fsynced, rec)
                  IN /\ requests_jsonl' = file.jsonl
                     /\ fsynced' = file.fsynced
                     /\ intake' = [pc |-> "issue", line |-> Len(file.jsonl)]
                     /\ UNCHANGED output
             ELSE /\ output' = [kind |-> "intake", status |-> r.status, accepted |-> FALSE,
                                github_issue_created |-> FALSE, issue |-> "none", line |-> 0]
                  /\ UNCHANGED <<requests_jsonl, fsynced, intake>>
    /\ UNCHANGED <<now, github_posts>>
    /\ IntakeFrame

\* request_access from create_github_access_issue to the return (lines 637-644).
IntakeIssue(reply) ==
    /\ intake.pc = "issue"
    /\ LET rec == requests_jsonl[intake.line]
           gh_issue == create_github_access_issue(rec, input.ACCESS_GITHUB_TOKEN, reply)
       IN /\ github_posts' =
                IF gh_issue.posted
                THEN Append(github_posts, [line |-> intake.line, reply |-> reply.kind,
                                           persisted |-> intake.line <= Len(requests_jsonl)])
                ELSE github_posts
          /\ output' =
                IF gh_issue.raised
                THEN [kind |-> "intake", status |-> 500, accepted |-> FALSE,
                      github_issue_created |-> FALSE, issue |-> gh_issue.error,
                      line |-> intake.line]
                ELSE [kind |-> "intake", status |-> 200, accepted |-> TRUE,
                      github_issue_created |-> gh_issue.created, issue |-> gh_issue.error,
                      line |-> intake.line]
    /\ intake' = NoIntake
    /\ UNCHANGED <<now, AR_IP_LOG, AR_EMAIL_LOG, requests_jsonl, fsynced>>
    /\ IntakeFrame

\* The operating system writes cached lines of the file to the disk.
Writeback ==
    /\ fsynced < Len(requests_jsonl)
    /\ \E n \in (fsynced + 1)..Len(requests_jsonl) : fsynced' = n
    /\ UNCHANGED <<now, output, AR_IP_LOG, AR_EMAIL_LOG, requests_jsonl, intake,
                   github_posts>>
    /\ IntakeFrame

NextIntake ==
    \/ IntakeTick
    \/ \E req \in IntakeRequests, host \in ClientHosts, hdr_len \in ContentLengths :
          IntakePersist(req, host, hdr_len)
    \/ \E reply \in GithubReplies : IntakeIssue(reply)
    \/ Writeback

SpecIntake == InitIntake /\ [][NextIntake]_vars

\* C21: when request_access answers 200, the line of the request is in
\* requests.jsonl and on stable storage.
C21_AcceptedIsFsynced ==
    (output.kind = "intake" /\ output.status = 200) =>
        /\ output.line <= Len(requests_jsonl)
        /\ output.line <= fsynced

\* C22: GitHub is called only for a record that is already in
\* requests.jsonl, and a request whose issue was not created is still
\* answered 200, accepted, with github_issue_created false.
C22_IssueFailureKeepsIntake ==
    /\ \A i \in DOMAIN github_posts : github_posts[i].persisted
    /\ (output.kind = "intake" /\ output.line > 0) =>
          /\ output.status = 200
          /\ output.accepted
          /\ output.github_issue_created = (output.issue = "")

\* Requests were answered after a missing token, a refused call and a call
\* that raised.
C22_Witness ==
    /\ output.kind = "intake"
    /\ output.status = 200
    /\ output.issue = "exception"
    /\ ~output.github_issue_created
    /\ Len(github_posts) = 2
    /\ github_posts[1].reply = "response"

(***************************************************************************)
(* Batch fetch, file by file: create_tarball and the download handlers of  *)
(* server/backend.py (lines 52-73, 171-221) on a list of filenames, with   *)
(* the archive as the sequence of its members.                             *)
(***************************************************************************)
MaxBatch == 3    \* longest list of filenames in a batch fetch

UnknownName == "tile_0_0.gpkg"

BatchNames(type) == TileNames(type) \cup {UnknownName}

\* file_to_coords_vl.json: every tile of the dataset with its origin.
file_to_coords == [f \in VlNames |-> <<VlTile(f).x, VlTile(f).y>>]

TarRaised == [raised |-> TRUE, members |-> <<>>]

\* The loop of create_tarball (lines 62-67): tar.add for each filename that
\* exists; a file that cannot be read makes tar.add raise.
RECURSIVE tar_add_loop(_, _, _, _)
tar_add_loop(file_list, directory, unreadable, members) ==
    IF file_list = <<>> THEN [raised |-> FALSE, members |-> members]
    ELSE LET filename == Head(file_list)
         IN IF filename \in directory
            THEN IF filename \in unreadable THEN TarRaised
                 ELSE tar_add_loop(Tail(file_list), directory, unreadable,
                                   Append(members, filename))
            ELSE tar_add_loop(Tail(file_list), directory, unreadable, members)

\* create_tarball: the members of the archive, the extra file last.
tar_members(directory, unreadable, file_list, extra_file) ==
    LET added == tar_add_loop(file_list, directory, unreadable, <<>>)
    IN IF added.raised THEN TarRaised
       ELSE [raised |-> FALSE, members |-> added.members \o extra_file]

BatchFailed == [status |-> 500, members |-> <<>>, coords |-> EmptyDict]

\* The loop of download_vl_files (lines 202-204): data[file] raises KeyError
\* for a name the table does not hold.
RECURSIVE coords_loop(_, _)
coords_loop(data_list, missing_files_coords) ==
    IF data_list = <<>> THEN [raised |-> FALSE, coords |-> missing_files_coords]
    ELSE LET file == Head(data_list)
         IN IF file \notin DOMAIN file_to_coords THEN [raised |-> TRUE, coords |-> EmptyDict]
            ELSE coords_loop(Tail(data_list),
                             Put(missing_files_coords, file, file_to_coords[file]))

\* POST /download-vl (and /download-bygg) on a list of filenames.
download_vl(data_list, directory, unreadable) ==
    LET looked_up == coords_loop(data_list, EmptyDict)
        tar == tar_members(directory, unreadable, data_list, <<SidecarName>>)
    IN IF looked_up.raised \/ tar.raised THEN BatchFailed
       ELSE [status |-> 200, members |-> tar.members, coords |-> looked_up.coords]

\* GET /download-laz on a list of filenames.
download_laz(data_list, directory, unreadable) ==
    LET tar == tar_members(directory, unreadable, data_list, <<>>)
    IN IF tar.raised THEN BatchFailed
       ELSE [status |-> 200, members |-> tar.members, coords |-> EmptyDict]

RECURSIVE SeqsUpTo(_, _)
SeqsUpTo(S, n) ==
    IF n = 0 THEN {<<>>}
    ELSE LET shorter == SeqsUpTo(S, n - 1)
         IN shorter \cup {Append(q, x) : q \in shorter, x \in S}

BatchInputs ==
    UNION {[type : {type}, filenames : SeqsUpTo(BatchNames(type), MaxBatch),
            directory : SUBSET TileNames(type), unreadable : SUBSET TileNames(type)] :
           type \in Types}

InitBatch ==
    /\ input \in {i \in BatchInputs : i.unreadable \subseteq i.directory}
    /\ output = NoOutput
    /\ serverTiles = [t \in Types |-> {}]
    /\ ClientFresh
    /\ ProcsFresh
    /\ ServerFresh

ApplyDownloadVl ==
    /\ output = NoOutput
    /\ input.type = "vl"
    /\ output' = download_vl(input.filenames, input.directory, input.unreadable)
    /\ UNCHANGED <<input, clientVars, serverVars, procs>>

ApplyDownloadLaz ==
    /\ output = NoOutput
    /\ input.type = "laz"
    /\ output' = download_laz(input.filenames, input.directory, input.unreadable)
    /\ UNCHANGED <<input, clientVars, serverVars, procs>>

NextBatch == ApplyDownloadVl \/ ApplyDownloadLaz

SpecBatch == InitBatch /\ [][NextBatch]_vars

Occurrences(seq, x) == Cardinality({i \in DOMAIN seq : seq[i] = x})

\* C23: the archive holds each requested filename that exists in the data
\* directory exactly once, and no tile that was not requested.
C23_RequestedExactlyOnce ==
    (output # NoOutput /\ output.status = 200) =>
        /\ \A f \in SeqToSet(input.filenames) \cap input.directory :
              Occurrences(output.members, f) = 1
        /\ \A f \in SeqToSet(output.members) \ {SidecarName} :
              f \in SeqToSet(input.filenames)

\* C24: a batch that names a missing, unknown or unreadable file succeeds
\* and delivers the other requested files.
C24_FileErrorsElided ==
    output # NoOutput =>
        /\ output.status = 200
        /\ \A f \in SeqToSet(input.filenames) \cap (input.directory \ input.unreadable) :
              f \in SeqToSet(output.members)

\* C25: the sidecar of a vector batch has an entry for exactly the tiles of
\* the archive, each with its origin.
C25_SidecarMatchesArchive ==
    (output # NoOutput /\ output.status = 200 /\ input.type = "vl") =>
        /\ DOMAIN output.coords = SeqToSet(output.members) \ {SidecarName}
        /\ \A f \in DOMAIN output.coords : output.coords[f] = <<VlTile(f).x, VlTile(f).y>>

(***************************************************************************)
(* Discovery when an atlas file is missing: load_lidar_atlas and           *)
(* load_gpkg_atlas of server-lidar-gpkg-ssh-merged.py (lines 458-535), and *)
(* the atlas loading at startup of server/backend.py (lines 24-47) with    *)
(* its process_bounding_box (lines 146-168).                               *)
(***************************************************************************)
MergedDatasets == {"lidar", "gpkg"}
BackendDatasets == {"laz", "bygg", "vl"}

\* The atlases on the servers' disks, where they are present.
LidarAtlasOnDisk ==
    IntSortedAtlas({[filename |-> <<"laz", 0, 0>>, x |-> 0, y |-> 0,
                     width |-> 100, height |-> 100]})
GpkgAtlasOnDisk ==
    <<[wellformed |-> TRUE, filename |-> <<"tile", 0, 0>>,
       minx |-> 0, miny |-> 0, maxx |-> 100, maxy |-> 100]>>

\* POST /lidar/tiles: load_lidar_atlas comes first (line 484).
post_lidar_tiles(exists, req) ==
    IF ~exists THEN HttpError(500) ELSE get_lidar_tiles(LidarAtlasOnDisk, req)

\* POST /gpkg/tiles: ensure_valid_bbox comes before load_gpkg_atlas
\* (lines 540-541).
post_gpkg_tiles(exists, req) ==
    IF req.minx > req.maxx \/ req.miny > req.maxy THEN HttpError(400)
    ELSE IF ~exists THEN HttpError(500)
    ELSE get_gpkg_tiles(GpkgAtlasOnDisk, req)

\* backend.py: find_files on an atlas that is None returns [] for a box out
\* of bounds and raises on list(None) otherwise.
find_files_on_none(points) ==
    IF ~hardcoded_bounds_hit(points) THEN Returned(<<>>) ELSE Raised

\* backend.py process_bounding_box with the atlases that startup loaded:
\* "laz" and "bygg" test their atlas, "vl" does not.
post_boundingbox(type, points, loaded) ==
    LET found(t) == process_bounding_box(IF t = "laz" THEN "laz" ELSE "vl", points,
                                         TileNames(IF t = "laz" THEN "laz" ELSE "vl"))
    IN IF type = "laz" /\ "laz" \in loaded THEN found("laz")
       ELSE IF type = "bygg" /\ "bygg" \in loaded THEN found("bygg")
       ELSE IF type = "vl"
       THEN IF "vl" \in loaded THEN found("vl")
            ELSE IF find_files_on_none(points).raised
                 THEN [status |-> 500, received_points |-> <<>>]
                 ELSE [status |-> 200, received_points |-> <<>>]
       ELSE [status |-> 200, received_points |-> <<>>]

AvailabilityInputs ==
    {[server |-> "merged", present |-> p, dataset |-> d, box |-> b] :
        p \in SUBSET MergedDatasets, d \in MergedDatasets,
        b \in DiscoveryCoords \X DiscoveryCoords \X DiscoveryCoords \X DiscoveryCoords}
    \cup
    {[server |-> "backend", present |-> p, dataset |-> d, box |-> b] :
        p \in (SUBSET BackendDatasets) \ {{}}, d \in BackendDatasets,
        b \in Queries("laz") \cup Queries("vl")}

InitAvailability ==
    /\ input \in AvailabilityInputs
    /\ output = NoOutput
    /\ serverTiles = [t \in Types |-> {}]
    /\ ClientFresh
    /\ ProcsFresh
    /\ ServerFresh

MergedAnswer(d, present, b) ==
    LET r == IF d = "lidar"
             THEN post_lidar_tiles("lidar" \in present,
                                   [xmin |-> b[1], ymin |-> b[2], xmax |-> b[3],
                                    ymax |-> b[4], buffer |-> 0])
             ELSE post_gpkg_tiles("gpkg" \in present,
                                  [minx |-> b[1], miny |-> b[2], maxx |-> b[3],
                                   maxy |-> b[4]])
    IN [kind |-> "availability", status |-> r.status, tiles |-> r.tiles]

BackendAnswer(d, present, b) ==
    LET r == post_boundingbox(d, b, present)
    IN [kind |-> "availability", status |-> r.status, tiles |-> r.received_points]

ApplyMergedDiscovery ==
    /\ output = NoOutput
    /\ input.server = "merged"
    /\ output' = MergedAnswer(input.dataset, input.present, input.box)
    /\ UNCHANGED <<input, clientVars, serverVars, procs>>

ApplyBackendDiscovery ==
    /\ output = NoOutput
    /\ input.server = "backend"
    /\ output' = BackendAnswer(input.dataset, input.present, input.box)
    /\ UNCHANGED <<input, clientVars, serverVars, procs>>

NextAvailability == ApplyMergedDiscovery \/ ApplyBackendDiscovery

SpecAvailability == InitAvailability /\ [][NextAvailability]_vars

\* C26: a discovery request for a dataset whose atlas file is missing is
\* answered 500, and a request for a dataset whose atlas is there is
\* answered as it is when no atlas is missing.
C26_MissingAtlasIs500 ==
    output.kind = "availability" =>
        IF input.dataset \notin input.present
        THEN output.status = 500
        ELSE output = IF input.server = "merged"
                      THEN MergedAnswer(input.dataset, MergedDatasets, input.box)
                      ELSE BackendAnswer(input.dataset, BackendDatasets, input.box)

\* The datasets whose atlas is there are served as when nothing is missing.
C26_OthersServed ==
    (output.kind = "availability" /\ input.dataset \in input.present) =>
        output = IF input.server = "merged"
                 THEN MergedAnswer(input.dataset, MergedDatasets, input.box)
                 ELSE BackendAnswer(input.dataset, BackendDatasets, input.box)

(***************************************************************************)
(* The superset cache of the client: get_buildings_for_bbox of overpass.py *)
(* (lines 135-175) with its registry cache_metadata.json, and              *)
(* download_tiles of geopkg.py (lines 138-220).                            *)
(***************************************************************************)
MaxCalls == 3    \* most Overpass calls in a run

CacheBoxes ==
    {<<0, 0, 3, 3>>, <<0, 0, 2, 2>>, <<1, 1, 2, 2>>, <<1, 1, 3, 3>>, <<2, 0, 3, 1>>,
     <<1, 1, 1, 1>>}

\* A test with its arguments exchanged.
is_superset_bbox_swapped(bbox_sup, bbox_sub) ==
    /\ bbox_sub[1] <= bbox_sup[1]
    /\ bbox_sub[2] <= bbox_sup[2]
    /\ bbox_sub[3] >= bbox_sup[3]
    /\ bbox_sub[4] >= bbox_sup[4]

is_superset_bbox(bbox_sup, bbox_sub) ==
    /\ bbox_sup[1] <= bbox_sub[1]
    /\ bbox_sup[2] <= bbox_sub[2]
    /\ bbox_sup[3] >= bbox_sub[3]
    /\ bbox_sup[4] >= bbox_sub[4]

NoRecord == [type |-> "none", bbox |-> <<0, 0, 0, 0>>, filepath |-> <<>>]

\* The first record whose box is a superset, or NoRecord for None.
RECURSIVE find_superset_record(_, _)
find_superset_record(bbox_3006, records) ==
    IF records = <<>> THEN NoRecord
    ELSE IF is_superset_bbox(Head(records).bbox, bbox_3006) THEN Head(records)
    ELSE find_superset_record(bbox_3006, Tail(records))

InitCache ==
    /\ input = [CACHE_METADATA_FILE |-> "cache_metadata.json"]
    /\ output = NoOutput
    /\ serverTiles = [t \in Types |-> {}]
    /\ ClientFresh
    /\ ProcsFresh
    /\ ServerFresh

CacheFrame == UNCHANGED <<input, serverTiles, atlasFile, tileDir, sampleTar, newFiles, pc,
                          call, missing, outcome, hist, serverVars, procs>>

\* get_buildings_for_bbox: the superset record's file filtered to the box,
\* or an Overpass download that is stored and recorded.
GetBuildingsForBbox(bbox_3006, answered) ==
    /\ Len(network_calls) < MaxCalls
    /\ LET records == cache_metadata
           sup_rec == find_superset_record(bbox_3006, records)
       IN IF sup_rec # NoRecord
          THEN /\ output' = [kind |-> "buildings", bbox |-> bbox_3006, raised |-> FALSE,
                             from |-> sup_rec.filepath]
               /\ UNCHANGED <<cache_metadata, network_calls>>
          ELSE /\ network_calls' = Append(network_calls, bbox_3006)
               /\ IF ~answered
                  THEN \* requests.post or raise_for_status raises
                       /\ output' = [kind |-> "buildings", bbox |-> bbox_3006,
                                     raised |-> TRUE, from |-> <<>>]
                       /\ UNCHANGED cache_metadata
                  ELSE /\ output' = [kind |-> "buildings", bbox |-> bbox_3006,
                                     raised |-> FALSE, from |-> <<"overpass">>]
                       /\ cache_metadata' =
                             Append(records, [type |-> "buildings", bbox |-> bbox_3006,
                                              filepath |-> <<"buildings">> \o bbox_3006])
    /\ CacheFrame

\* download_tiles: line 147 reads the local name bbox before it is bound,
\* so the call raises before the registry or the network is touched.
DownloadTiles(user_bbox) ==
    /\ output' = [kind |-> "tiles", bbox |-> user_bbox, raised |-> TRUE, from |-> <<>>]
    /\ UNCHANGED <<cache_metadata, network_calls>>
    /\ CacheFrame

NextCache ==
    \/ \E b \in CacheBoxes, answered \in BOOLEAN : GetBuildingsForBbox(b, answered)
    \/ \E b \in CacheBoxes : DownloadTiles(b)

SpecCache == InitCache /\ [][NextCache]_vars

\* bbox2 lies in bbox1 on both axes.
Contained(bbox2, bbox1) ==
    /\ bbox1[1] <= bbox2[1] /\ bbox1[2] <= bbox2[2]
    /\ bbox1[3] >= bbox2[3] /\ bbox1[4] >= bbox2[4]

\* C28: a request for a box contained in a box of the registry issues no
\* network call: every call sent is for a box that no record contained.
C28_SupersetSkip ==
    [][Len(network_calls') > Len(network_calls) =>
          ~\E i \in DOMAIN cache_metadata :
               Contained(network_calls'[Len(network_calls')], cache_metadata[i].bbox)]_vars

\* A box inside the second record of the registry is answered from that
\* record's file.
C28_Witness ==
    /\ output.kind = "buildings"
    /\ ~output.raised
    /\ Len(cache_metadata) >= 2
    /\ output.from = cache_metadata[2].filepath
    /\ output.bbox # cache_metadata[2].bbox
    /\ Len(network_calls) = Len(cache_metadata)

(***************************************************************************)
(* What a reconcile hands back, and how often it asks the server.          *)
(***************************************************************************)
\* get_missing_files ends with a bare return (lines 178, 206) or at the end
\* of its body (line 210), and download_footprints, download_pointcloud and
\* download_roadnetwork return its result: None, however the call ended.
get_missing_files_result(how) == [none |-> TRUE, paths |-> {}]

Finished == pc = "idle" /\ outcome \in {"ok", "up_to_date"}

\* C29: a reconcile returns the paths of the local files of the box and of
\* the files it extracted; with nothing missing, the paths of the files
\* that are both local and on the server.
C29_ReturnsTilePaths ==
    Finished =>
        LET r == get_missing_files_result(outcome)
            extracted == tileDir[call.type] \ hist.tileDirAtStart[call.type]
        IN /\ ~r.none
           /\ r.paths = IF outcome = "up_to_date"
                        THEN hist.local_files \cap hist.server_files
                        ELSE hist.local_files \cup extracted

\* C30: a reconcile that met a network error gave up only after it had
\* tried again, and no reconcile sends a request more than 3 times.
C30_RetriesThenGivesUp ==
    /\ hist.attempts.discovery <= 3
    /\ hist.attempts.download <= 3
    /\ (pc = "idle" /\ hist.network_error) =>
          \/ hist.attempts.discovery > 1
          \/ hist.attempts.download > 1

\* No reconcile sends a request more than 3 times.
C30_AttemptsBounded ==
    hist.attempts.discovery <= 3 /\ hist.attempts.download <= 3

(***************************************************************************)
(* The order of the steps of fix_atlas.                                    *)
(***************************************************************************)
\* C31: within a reconcile the atlas file of a dataset is rewritten only
\* when the files it then references are in the dataset's tile directory:
\* no step leaves an atlas it has changed referencing a file that is not
\* yet on disk.
C31_AtlasWrittenAfterMove ==
    [][\A t \in Types :
          atlasFile'[t] # atlasFile[t] => Referenced(atlasFile'[t]) \subseteq tileDir'[t]]_vars

(***************************************************************************)
(* atlas/utils.py: how an update writes the atlas file.                    *)
(***************************************************************************)
\* The atlas file right after open(atlas, 'w'), and while json.dump has
\* written part of its text: json.load raises JSONDecodeError on it.
PartialFile == [exists |-> TRUE, data |-> <<>>, partial |-> TRUE]

\* The atlas files an update may find, and the new_files directories.
AtlasFilesOf(type) ==
    {NoAtlasFile} \cup
    {WrittenAtlas({IF type = "laz" THEN LocalLazEntry(f) ELSE LocalGpkgEntry(f) : f \in S}) :
        S \in SUBSET TileNames(type)}

DirectoriesOf(type) ==
    IF type = "laz"
    THEN {[names |-> S, coords |-> {}] : S \in SUBSET LazNames}
    ELSE {[names |-> S \cup {SidecarName}, coords |-> S] : S \in SUBSET VlNames}

InitWrite ==
    /\ input \in {[type |-> t, atlas |-> a, directory |-> d] :
                     t \in Types, a \in UNION {AtlasFilesOf(ty) : ty \in Types},
                     d \in UNION {DirectoriesOf(ty) : ty \in Types}}
    /\ input.atlas \in AtlasFilesOf(input.type)
    /\ input.directory \in DirectoriesOf(input.type)
    /\ output = NoOutput
    /\ serverTiles = [t \in Types |-> {}]
    /\ cache_metadata = <<>>
    /\ network_calls = <<>>
    /\ atlasFile = [t \in Types |-> IF t = input.type THEN input.atlas ELSE NoAtlasFile]
    /\ tileDir = [t \in Types |-> {}]
    /\ sampleTar = NoArchive
    /\ newFiles = input.directory
    /\ pc = "update"
    /\ call = [type |-> input.type, bbox |-> <<0, 0, 0, 0>>]
    /\ missing = <<>>
    /\ outcome = "running"
    /\ hist = [atlasAtStart |-> [t \in Types |-> NoAtlasFile],
               tileDirAtStart |-> [t \in Types |-> {}],
               local_files |-> {}, server_files |-> {}, requested |-> {},
               lastOk |-> NoRequest, repeat |-> FALSE,
               reconciles |-> 0, serverChanges |-> 0,
               attempts |-> [discovery |-> 0, download |-> 0], network_error |-> FALSE]
    /\ ProcsFresh
    /\ ServerFresh

WriteFrame == UNCHANGED <<input, serverTiles, cacheVars, tileDir, sampleTar, newFiles, call,
                          missing, hist, serverVars, procs>>

\* Lines 32-55 and 68-92: the atlas is loaded, the entries of the new files
\* are merged into it and the catalog is sorted, all in memory.
UpdateLoadAndSort ==
    /\ pc = "update"
    /\ output = NoOutput
    /\ \E unreadable \in {{}} \cup {{f} : f \in newFiles.names \cap LazNames},
          sidecarReadable \in BOOLEAN :
         LET r == IF call.type = "laz"
                  THEN update_laz_atlas(newFiles, atlasFile[call.type], unreadable)
                  ELSE update_gpkg_atlas(newFiles, atlasFile[call.type], sidecarReadable)
         IN /\ output' = [kind |-> "update", old |-> atlasFile[call.type],
                          sorted_catalog |-> r.file]
            /\ IF r.raised
               THEN pc' = "idle" /\ outcome' = "update_failed"
               ELSE pc' = "open" /\ outcome' = "running"
    /\ UNCHANGED atlasFile
    /\ WriteFrame

\* Lines 57 and 93: open(atlas, 'w') truncates the file it opens; it raises
\* and leaves the file alone when the file may not be written.
UpdateOpen ==
    /\ pc = "open"
    /\ \E writable \in BOOLEAN :
         IF writable
         THEN /\ atlasFile' = [atlasFile EXCEPT ![call.type] = PartialFile]
              /\ pc' = "dump"
              /\ UNCHANGED outcome
         ELSE /\ pc' = "idle"
              /\ outcome' = "update_failed"
              /\ UNCHANGED atlasFile
    /\ UNCHANGED output
    /\ WriteFrame

\* Lines 58 and 94: json.dump writes the catalog and the with block closes
\* the file; a write that raises (a full disk) leaves what was written.
UpdateDump ==
    /\ pc = "dump"
    /\ \E disk_full \in BOOLEAN :
         IF disk_full
         THEN /\ pc' = "idle"
              /\ outcome' = "update_failed"
              /\ UNCHANGED atlasFile
         ELSE /\ atlasFile' = [atlasFile EXCEPT ![call.type] = output.sorted_catalog]
              /\ pc' = "move"
              /\ UNCHANGED outcome
    /\ UNCHANGED output
    /\ WriteFrame

\* The client is killed or loses power in the middle of an update.
Crash ==
    /\ pc \in {"open", "dump"}
    /\ pc' = "crashed"
    /\ outcome' = "crashed"
    /\ UNCHANGED <<atlasFile, output>>
    /\ WriteFrame

NextWrite == UpdateLoadAndSort \/ UpdateOpen \/ UpdateDump \/ Crash

SpecWrite == InitWrite /\ [][NextWrite]_vars

\* C32: at every point of an atlas update, a crash or a failed write
\* included, the atlas file on disk is the complete old atlas or the
\* complete new one.
C32_AtlasOldOrNew ==
    output.kind = "update" =>
        atlasFile[call.type] \in {output.old, output.sorted_catalog}

(***************************************************************************)
(* A reconcile that receives no complete archive.                          *)
(***************************************************************************)
\* The reconcile under way, or the last one, sent its download request and
\* wrote the whole response to sample.tar.
ReceivedArchive == hist.attempts.download = 1 /\ outcome # "download_failed"

\* C33: a reconcile that receives no complete archive (the download is
\* declined, the cache directory check or the authentication fails, the
\* download raises) extracts no archive and leaves the local atlas and the
\* tile directory as they were when it started.
C33_NoArchiveNoChange ==
    ~ReceivedArchive =>
        /\ pc \notin {"update", "move", "cleanup"}
        /\ atlasFile = hist.atlasAtStart
        /\ tileDir = hist.tileDirAtStart

(***************************************************************************)
(* server-lidar-gpkg-ssh-merged.py, create_app: the middleware stack.      *)
(***************************************************************************)
MaxStackRequests == 6    \* most requests the stack admits in a run

\* Starlette's add_middleware puts the new middleware in front of those
\* added before it: the middleware added last is the first to see a request.
add_middleware(user_middleware, dispatch) == <<dispatch>> \o user_middleware

\* create_app, lines 343-353: the limiter is added first if it is installed,
\* the auth middleware after it.
user_middleware(config) ==
    LET with_limiter == IF rate_limit_installed(config)
                        THEN add_middleware(<<>>, "rate_limit_middleware")
                        ELSE <<>>
    IN add_middleware(with_limiter, "auth_middleware")

\* What a request meets on its way: the answer, the token dictionary and
\* the limiter's lists after it, and the middlewares that saw it.
StackResult(status, tokens, log, validated, saw) ==
    [status |-> status, tokens |-> tokens, log |-> log, validated |-> validated, saw |-> saw]

\* auth_middleware as one layer: the answer 401, or call_next.
auth_layer(config, tokens, t, path, header) ==
    IF passes_unauthenticated(path, config.ENABLE_AUTH)
    THEN [next |-> TRUE, tokens |-> tokens, validated |-> FALSE]
    ELSE IF ~starts_with_bearer(header)
    THEN [next |-> FALSE, tokens |-> tokens, validated |-> FALSE]
    ELSE LET v == validate_token(tokens, t, bearer_token(header))
         IN [next |-> v.result, tokens |-> v.tokens, validated |-> TRUE]

\* The request passes the layers from the first of the stack to the handler.
RECURSIVE call_next(_, _, _, _, _, _, _, _, _)
call_next(stack, config, tokens, log, t, ip, path, header, sofar) ==
    IF stack = <<>> THEN StackResult(200, tokens, log, sofar.validated, sofar.saw)
    ELSE IF Head(stack) = "auth_middleware"
    THEN LET a == auth_layer(config, tokens, t, path, header)
             seen == [validated |-> sofar.validated \/ a.validated,
                      saw |-> Append(sofar.saw, Head(stack))]
         IN IF a.next
            THEN call_next(Tail(stack), config, a.tokens, log, t, ip, path, header, seen)
            ELSE StackResult(401, a.tokens, log, seen.validated, seen.saw)
    ELSE LET r == rate_limit(log, ip, t, rate_limit_arguments)
             seen == [validated |-> sofar.validated, saw |-> Append(sofar.saw, Head(stack))]
         IN IF r.status = 200
            THEN call_next(Tail(stack), config, tokens, r.log, t, ip, path, header, seen)
            ELSE StackResult(429, tokens, log, seen.validated, seen.saw)

StackPaths == {"/healthz", "/auth/token", "/gpkg/tiles"}
StackHeaders ==
    {NoHeader} \cup [scheme : {"Bearer"}, token : {"3f9a", ForgedToken}, padded : {FALSE}]
StackInstants == {0, 3601}
StackIPs == {"10.0.0.1"}

InitStack ==
    /\ input \in [ENABLE_AUTH : {TRUE}, importable : {TRUE}, ENABLE_RATE_LIMIT : BOOLEAN]
    /\ output = NoOutput
    /\ serverTiles = [t \in Types |-> {}]
    /\ ClientFresh
    /\ ProcsFresh
    /\ ServerFresh

StackFrame == UNCHANGED <<input, clientVars, procs, AR_IP_LOG, AR_EMAIL_LOG, requests_jsonl,
                          intakeVars, backendVars>>

StackTick ==
    /\ \E t \in StackInstants : t > now /\ now' = t
    /\ UNCHANGED <<output, TOKENS, issued, rate_log, admitted>>
    /\ StackFrame

\* A request to the application: the stack, then the handler; the handler
\* of /auth/token issues a token when ssh_authenticate accepts.
StackRequest(ip, path, header) ==
    /\ Len(admitted) < MaxStackRequests
    /\ LET r == call_next(user_middleware(input), input, TOKENS, rate_log, now, ip, path,
                          header, [validated |-> FALSE, saw |-> <<>>])
           over == rate_limit_installed(input)
                   /\ rate_limit(rate_log, ip, now, rate_limit_arguments).status = 429
       IN /\ output' = [kind |-> "stack", ip |-> ip, path |-> path, header |-> header,
                        at |-> now, status |-> r.status, validated |-> r.validated,
                        saw |-> r.saw, over_limit |-> over]
          /\ rate_log' = r.log
          /\ admitted' = IF r.status = 200 THEN Append(admitted, [ip |-> ip, at |-> now])
                         ELSE admitted
          /\ IF r.status = 200 /\ path = "/auth/token" /\ "3f9a" \notin DOMAIN issued
             THEN /\ TOKENS' = issue_token(r.tokens, now, "alice", "3f9a")
                  /\ issued' = Put(issued, "3f9a", [at |-> now, username |-> "alice"])
             ELSE /\ TOKENS' = r.tokens
                  /\ UNCHANGED issued
    /\ UNCHANGED now
    /\ StackFrame

NextStack ==
    \/ StackTick
    \/ \E ip \in StackIPs, path \in StackPaths, header \in StackHeaders :
          StackRequest(ip, path, header)

SpecStack == InitStack /\ [][NextStack]_vars

\* C34: with the limiter installed, a request that exceeds the rate limit is
\* answered 429 and its token is not validated, whatever token it carries.
C34_LimiterBeforeAuth ==
    (output.kind = "stack" /\ output.over_limit) =>
        /\ output.status = 429
        /\ ~output.validated

(***************************************************************************)
(* The life of a token.                                                    *)
(***************************************************************************)
\* C35: a token goes one way, from issued and valid to expired: no step
\* changes the expiry of an entry of the token dictionary, an issued token
\* whose entry is gone never gets one again, and a validation of an issued
\* token after its expiry fails and leaves no entry for it.
C35_TokenLifecycleOneWay ==
    [][/\ \A token \in DOMAIN TOKENS \cap DOMAIN TOKENS' : TOKENS'[token] = TOKENS[token]
       /\ \A token \in DOMAIN issued \ DOMAIN TOKENS : token \notin DOMAIN TOKENS'
       /\ (output'.kind = "validate" /\ ~output'.result) =>
              output'.token \notin DOMAIN TOKENS'
       /\ (/\ output'.kind = "validate"
           /\ output'.token \in DOMAIN issued'
           /\ output'.at > issued'[output'.token].at + TOKEN_TTL_SECONDS) =>
              ~output'.result /\ output'.token \notin DOMAIN TOKENS']_vars

\* An expired token fails its validation and has lost its entry while a
\* later token of the same user has one.
C35_Witness ==
    /\ output.kind = "validate"
    /\ ~output.result
    /\ output.token \in DOMAIN issued
    /\ output.token \notin DOMAIN TOKENS
    /\ \E other \in DOMAIN TOKENS : issued[other].username = issued[output.token].username

(***************************************************************************)
(* request_access on the threads of the server.  The handler is a plain    *)
(* def, which FastAPI runs on a thread pool: two submissions may be in the *)
(* handler at once.  The with _AR_LOCK block (lines 598-620) is one step;  *)
(* what follows it (lines 622-644) runs outside the lock.                  *)
(***************************************************************************)
ThreadInstants == {0, 30}

InitThreads ==
    /\ input \in [writable : BOOLEAN]
    /\ output = NoOutput
    /\ serverTiles = [t \in Types |-> {}]
    /\ ClientFresh
    /\ ProcsFresh
    /\ ServerFresh

ThreadFrame == UNCHANGED <<input, clientVars, TOKENS, issued, rate_log, admitted, intakeVars, backendVars>>

ThreadAt(p, where, rec) == [procs EXCEPT ![p].pc = where, ![p].data = rec]

ThreadTick ==
    /\ \E t \in ThreadInstants : t > now /\ now' = t
    /\ UNCHANGED <<output, procs, AR_IP_LOG, AR_EMAIL_LOG, requests_jsonl>>
    /\ ThreadFrame

\* Lines 571-630: the size check, the validation, the block under _AR_LOCK
\* and the record.  The lock is released at the end of the block.
ThreadThrottle(p, req, host) ==
    /\ procs[p].pc = "idle"
    /\ LET r == request_access(AR_IP_LOG, AR_EMAIL_LOG, requests_jsonl, req, host, 100,
                               now, TRUE)
       IN /\ AR_IP_LOG' = r.ip_log
          /\ AR_EMAIL_LOG' = r.email_log
          /\ IF r.status = 200
             THEN /\ procs' = ThreadAt(p, "record", <<r.jsonl[Len(r.jsonl)]>>)
                  /\ UNCHANGED output
             ELSE /\ output' = [kind |-> "thread", thread |-> p, status |-> r.status]
                  /\ UNCHANGED procs
    /\ UNCHANGED <<now, requests_jsonl>>
    /\ ThreadFrame

\* append_access_request, lines 171-174: ensure_dir and open(file_path, "a").
ThreadOpen(p) ==
    /\ procs[p].pc = "record"
    /\ IF input.writable
       THEN /\ procs' = ThreadAt(p, "write", procs[p].data)
            /\ UNCHANGED output
       ELSE /\ procs' = ThreadAt(p, "idle", <<>>)
            /\ output' = [kind |-> "thread", thread |-> p, status |-> 500]
    /\ UNCHANGED <<now, AR_IP_LOG, AR_EMAIL_LOG, requests_jsonl>>
    /\ ThreadFrame

\* append_access_request, lines 174-176: the line is written as the file
\* is closed.
ThreadWrite(p) ==
    /\ procs[p].pc = "write"
    /\ requests_jsonl' = Append(requests_jsonl, procs[p].data[1])
    /\ procs' = ThreadAt(p, "github", procs[p].data)
    /\ UNCHANGED <<now, output, AR_IP_LOG, AR_EMAIL_LOG>>
    /\ ThreadFrame

\* Lines 637-644: the GitHub issue and the answer.
ThreadReturn(p) ==
    /\ procs[p].pc = "github"
    /\ procs' = ThreadAt(p, "idle", <<>>)
    /\ output' = [kind |-> "thread", thread |-> p, status |-> 200]
    /\ UNCHANGED <<now, AR_IP_LOG, AR_EMAIL_LOG, requests_jsonl>>
    /\ ThreadFrame

NextThreads ==
    \/ ThreadTick
    \/ \E p \in Procs, req \in IntakeRequests, host \in ClientHosts : ThreadThrottle(p, req, host)
    \/ \E p \in Procs : ThreadOpen(p)
    \/ \E p \in Procs : ThreadWrite(p)
    \/ \E p \in Procs : ThreadReturn(p)

SpecThreads == InitThreads /\ [][NextThreads]_vars

\* The threads that have updated the throttle lists and not yet finished
\* their append, and those that have requests.jsonl open.
BetweenCountAndAppend == {p \in Procs : procs[p].pc \in {"record", "write"}}
Appending == {p \in Procs : procs[p].pc = "write"}

\* C36: appends to requests.jsonl are serialized by the guard of the
\* throttle lists: no two threads have the file open for appending at once,
\* and while one thread is between its update of the lists and the end of
\* its append no other thread is.
C36_AppendUnderThrottleGuard ==
    /\ Cardinality(Appending) <= 1
    /\ Cardinality(BetweenCountAndAppend) <= 1

(***************************************************************************)
(* The throttle of request_access seen from the submissions it lets pass.  *)
(***************************************************************************)
\* The runs studied: one source past the window with appends that succeed,
\* one source with appends that may fail, and two sources over the interval.
ThrottleRuns ==
    {[hosts |-> {"10.0.0.1"}, instants |-> {0, 30, 65, 100, 135, 170, 3600, 3630},
      writable |-> {TRUE}],
     [hosts |-> {"10.0.0.1"}, instants |-> {0, 10, 30, 65}, writable |-> BOOLEAN],
     [hosts |-> ClientHosts, instants |-> {0, 10, 30}, writable |-> {TRUE}]}

InitThrottle ==
    /\ input \in [hdr_len : {100}, run : ThrottleRuns]
    /\ output = NoOutput
    /\ serverTiles = [t \in Types |-> {}]
    /\ ClientFresh
    /\ ProcsFresh
    /\ ServerFresh

ThrottleFrame == UNCHANGED <<input, clientVars, procs, TOKENS, issued, rate_log, intakeVars, backendVars>>

ThrottleTick ==
    /\ \E t \in input.run.instants : t > now /\ now' = t
    /\ UNCHANGED <<output, admitted, AR_IP_LOG, AR_EMAIL_LOG, requests_jsonl>>
    /\ ThrottleFrame

\* POST /access/request; the append to requests.jsonl may fail at any call.
\* admitted keeps the submissions that left the block under _AR_LOCK without
\* a 429, accepted or not.
Submit(req, host, writable) ==
    /\ host \in input.run.hosts
    /\ writable \in input.run.writable
    /\ LET r == request_access(AR_IP_LOG, AR_EMAIL_LOG, requests_jsonl, req, host,
                               input.hdr_len, now, writable)
           sub == [remote_addr |-> client_ip_of(host), key |-> lower(strip(req.email)),
                   at |-> now]
       IN /\ output' = [kind |-> "submit", status |-> r.status, detail |-> r.detail,
                        remote_addr |-> sub.remote_addr, key |-> sub.key, at |-> now,
                        wellformed |-> r.status \notin {400, 413}]
          /\ AR_IP_LOG' = r.ip_log
          /\ AR_EMAIL_LOG' = r.email_log
          /\ requests_jsonl' = r.jsonl
          /\ admitted' = IF r.status \in {200, 500} THEN Append(admitted, sub) ELSE admitted
    /\ UNCHANGED now
    /\ ThrottleFrame

NextThrottle ==
    \/ ThrottleTick
    \/ \E req \in IntakeRequests, host \in ClientHosts, writable \in BOOLEAN :
          Submit(req, host, writable)

SpecThrottle == InitThrottle /\ [][NextThrottle]_vars

\* The times of the submissions of a log, before the last submission, that
\* have its source, or its normalized email.
Earlier(log, n, Same(_)) == {log[j].at : j \in {i \in 1..n : Same(log[i])}}

\* The throttle's two conditions on a set of times, for a submission at t.
Clear(times, t, max) ==
    /\ \A e \in times : t - e >= ACCESS_REQ_MIN_INTERVAL_SECONDS
    /\ Cardinality({e \in times : t - e <= ACCESS_REQ_WINDOW_SECONDS}) < max

\* The accepted submissions: the lines of requests.jsonl.
AcceptedLog ==
    [i \in DOMAIN requests_jsonl |->
        [remote_addr |-> requests_jsonl[i].remote_addr,
         key |-> lower(strip(requests_jsonl[i].email)),
         at |-> requests_jsonl[i].timestamp]]

NotOverRejected(log, n) ==
    (/\ output.kind = "submit"
     /\ output.wellformed
     /\ Clear(Earlier(log, n, LAMBDA s : s.remote_addr = output.remote_addr), output.at,
              ACCESS_REQ_MAX_PER_IP)
     /\ Clear(Earlier(log, n, LAMBDA s : s.key = output.key), output.at,
              ACCESS_REQ_MAX_PER_EMAIL)) =>
        output.status # 429

\* C37, as stated: a well-formed submission is not answered 429 when, for
\* its source and for its normalized email, the last accepted submission is
\* at least I_ar old and fewer than the maximum were accepted in the last
\* W_ar seconds.
C37_NoOverRejectAccepted ==
    NotOverRejected(AcceptedLog,
                    IF output.kind = "submit" /\ output.status = 200
                    THEN Len(requests_jsonl) - 1 ELSE Len(requests_jsonl))

\* C37, amended: the same with the submissions that passed the throttle,
\* those answered 500 for a failed append included, in place of the
\* accepted ones; submissions answered 429 do not count.
C37_NoOverRejectPassed ==
    NotOverRejected(admitted,
                    IF output.kind = "submit" /\ output.status \in {200, 500}
                    THEN Len(admitted) - 1 ELSE Len(admitted))

\* A submission 35 s after an accepted one of the same source and email is
\* accepted.
C37_Witness ==
    /\ output.kind = "submit"
    /\ output.status = 200
    /\ output.at = 65
    /\ Len(requests_jsonl) = 2
    /\ requests_jsonl[1].timestamp = 30
    /\ requests_jsonl[1].remote_addr = output.remote_addr
    /\ lower(strip(requests_jsonl[1].email)) = output.key

(***************************************************************************)
(* server/backend.py: batch downloads handled at once.  app.run starts     *)
(* Flask's development server, which handles each request on a thread of   *)
(* its own; every handler writes zipped_data/myfiles.tar.gz and, for the   *)
(* vector datasets, missing_coords.json in the working directory.          *)
(***************************************************************************)
InitServe ==
    /\ input = [zip_folder |-> "zipped_data"]
    /\ output = NoOutput
    /\ serverTiles = [t \in Types |-> TileNames(t)]
    /\ ClientFresh
    /\ ProcsFresh
    /\ ServerFresh

ServeFrame == UNCHANGED <<input, output, clientVars, now, TOKENS, issued, rate_log, admitted,
                          AR_IP_LOG, AR_EMAIL_LOG, requests_jsonl, intakeVars>>

Handler(p, where) == [procs EXCEPT ![p].pc = where]

\* Lines 194-197 and 216-218: the request arrives and the handler removes
\* the archive file if there is one.
ServeRemove(p, type, filenames) ==
    /\ procs[p].pc = "idle"
    /\ procs[p].outcome = "none"
    /\ procs' = [procs EXCEPT ![p].pc = IF type = "laz" THEN "tarball" ELSE "coords",
                              ![p].type = type,
                              ![p].extracted = filenames]
    /\ myfiles_tar_gz' = NoArchive
    /\ UNCHANGED missing_coords_json
    /\ ServeFrame

\* Lines 198-206: the coordinates of the requested files are written to
\* missing_coords.json.
ServeWriteCoords(p) ==
    /\ procs[p].pc = "coords"
    /\ missing_coords_json' = [exists |-> TRUE, coords |-> procs[p].extracted]
    /\ procs' = Handler(p, "tarball")
    /\ UNCHANGED myfiles_tar_gz
    /\ ServeFrame

\* create_tarball (lines 52-73) as called at lines 209 and 220: the archive
\* is written with the requested files that exist and the extra file as it
\* is at that moment, and the extra file is removed.  tar.add raises when
\* the extra file is not there, and leaves an archive without a valid end.
ServeCreateTarball(p) ==
    /\ procs[p].pc = "tarball"
    /\ IF procs[p].type = "laz"
       THEN /\ myfiles_tar_gz' = create_tarball(serverTiles["laz"], procs[p].extracted, {}, {})
            /\ procs' = Handler(p, "send")
            /\ UNCHANGED missing_coords_json
       ELSE IF ~missing_coords_json.exists
       THEN /\ myfiles_tar_gz' = [state |-> "partial", names |-> {}, coords |-> {}]
            /\ procs' = [procs EXCEPT ![p].pc = "idle", ![p].outcome = "raised"]
            /\ UNCHANGED missing_coords_json
       ELSE /\ myfiles_tar_gz' = create_tarball(serverTiles[procs[p].type], procs[p].extracted,
                                                {SidecarName}, missing_coords_json.coords)
            /\ procs' = Handler(p, "send")
            /\ missing_coords_json' = NoSidecarFile
    /\ ServeFrame

\* Lines 210 and 221: send_file answers with the archive file as it is now;
\* it raises when the file is not there.
ServeSendFile(p) ==
    /\ procs[p].pc = "send"
    /\ procs' = IF myfiles_tar_gz.state = "absent"
                THEN [procs EXCEPT ![p].pc = "idle", ![p].outcome = "raised"]
                ELSE [procs EXCEPT ![p].pc = "idle", ![p].outcome = "sent",
                                   ![p].downloaded = myfiles_tar_gz.names,
                                   ![p].entries = myfiles_tar_gz.coords,
                                   ![p].wrote = myfiles_tar_gz.state = "complete"]
    /\ UNCHANGED backendVars
    /\ ServeFrame

NextServe ==
    \/ \E p \in Procs, type \in Types :
          \E filenames \in SUBSET TileNames(type) \ {{}} : ServeRemove(p, type, filenames)
    \/ \E p \in Procs : ServeWriteCoords(p)
    \/ \E p \in Procs : ServeCreateTarball(p)
    \/ \E p \in Procs : ServeSendFile(p)

SpecServe == InitServe /\ [][NextServe]_vars

\* C38: with batch requests handled at once, every request is answered,
\* and answered with a whole archive of exactly its own tiles and, for a
\* vector dataset, the sidecar of its own filenames.
C38_OwnArchiveOnly ==
    \A p \in Procs :
        /\ procs[p].outcome # "raised"
        /\ procs[p].outcome = "sent" =>
              /\ procs[p].wrote
              /\ procs[p].downloaded =
                    procs[p].extracted \cup (IF procs[p].type = "laz" THEN {} ELSE {SidecarName})
              /\ procs[p].entries = IF procs[p].type = "laz" THEN {} ELSE procs[p].extracted

(***************************************************************************)
(* atlas/utils.py: the order of the keys an update writes.                 *)
(***************************************************************************)
\* Tile origins whose keys differ in their number of digits.
OrderXs == {90000, 100000}
OrderYs == {990000, 1000000}

OrderTiles ==
    {[filename |-> "tile", x |-> x, y |-> y, width |-> 10000, height |-> 10000] :
        x \in OrderXs, y \in OrderYs}

InitOrder ==
    /\ input \in [atlas : {NoAtlasFile} \cup {WrittenAtlas(S) : S \in SUBSET OrderTiles},
                  entries : SUBSET OrderTiles]
    /\ output = NoOutput
    /\ serverTiles = [t \in Types |-> {}]
    /\ ClientFresh
    /\ ProcsFresh
    /\ ServerFresh

\* update_gpkg_atlas, lines 72-94, for the entries of a sidecar.
ApplyUpdateGpkgAtlas ==
    /\ output = NoOutput
    /\ output' = [kind |-> "gpkg_atlas",
                  file |-> WrittenAtlas(MergeEntries(LoadAtlas(input.atlas), input.entries))]
    /\ UNCHANGED <<input, clientVars, serverVars, procs>>

\* update_laz_atlas, lines 32-58, for LAZ files whose points span the tiles.
ApplyUpdateLazAtlas ==
    /\ output = NoOutput
    /\ LET laz == {[filename |-> "tile", x |-> t.x, y |-> t.y,
                    width |-> (t.x + 9999) - t.x, height |-> (t.y + 9999) - t.y] :
                      t \in input.entries}
       IN output' = [kind |-> "laz_atlas",
                     file |-> WrittenAtlas(MergeEntries(LoadAtlas(input.atlas), laz))]
    /\ UNCHANGED <<input, clientVars, serverVars, procs>>

NextOrder == ApplyUpdateGpkgAtlas \/ ApplyUpdateLazAtlas

SpecOrder == InitOrder /\ [][NextOrder]_vars

\* C39: the x keys of the atlas an update writes, and the y keys of each of
\* its columns, are in ascending integer order.
C39_WrittenKeysAscending ==
    output.kind \in {"gpkg_atlas", "laz_atlas"} =>
        LET data == output.file.data
        IN /\ IsSortedInt([i \in 1..Len(data) |-> data[i].x])
           /\ \A i \in 1..Len(data) :
                 IsSortedInt([j \in 1..Len(data[i].ys) |-> data[i].ys[j].y])

(***************************************************************************)
(* dtcc_data/cache.py: empty_cache.  A disk is a set of nodes, each with   *)
(* its path (the list of its components), its kind and, for a symbolic     *)
(* link, the path it points to.                                            *)
(***************************************************************************)
File(path) == [path |-> path, kind |-> "file", target |-> <<>>]
Dir(path) == [path |-> path, kind |-> "dir", target |-> <<>>]
Link(path, target) == [path |-> path, kind |-> "link", target |-> target]

\* What is on the disk beside the cache: a home directory with a file and
\* a directory, and a link to the cache directory.
OutsideNodes ==
    {Dir(<<"home">>), File(<<"home", "doc">>), Dir(<<"home", "dir">>),
     File(<<"home", "dir", "f">>), Link(<<"c">>, <<"cache">>)}

\* What the cache directory may hold: a file, a directory with a file and a
\* link out of the cache in it, a link to the file, links to a file and to
\* a directory outside, and a link to itself.
CacheEntries ==
    {{File(<<"cache", "f">>)},
     {Dir(<<"cache", "d">>), File(<<"cache", "d", "g">>),
      Link(<<"cache", "d", "out">>, <<"home", "dir">>)},
     {Link(<<"cache", "in">>, <<"cache", "f">>)},
     {Link(<<"cache", "out">>, <<"home", "doc">>)},
     {Link(<<"cache", "outd">>, <<"home", "dir">>)},
     {Link(<<"cache", "loop">>, <<"cache", "loop">>)}}

IsPrefix(base, path) == Len(base) <= Len(path) /\ SubSeq(path, 1, Len(base)) = base

NodeAt(disk, path) == CHOOSE n \in disk : n.path = path
Exists(disk, path) == \E n \in disk : n.path = path

\* Path.resolve(strict=False) of a path whose parent holds no link: a link is
\* followed to where it points, a link to itself is a loop.
Resolved(path) == [loop |-> FALSE, path |-> path]
ResolveLoop == [loop |-> TRUE, path |-> <<>>]

RECURSIVE resolve(_, _, _)
resolve(disk, path, seen) ==
    IF ~Exists(disk, path) THEN Resolved(path)
    ELSE IF NodeAt(disk, path).kind # "link" THEN Resolved(path)
    ELSE IF path \in seen THEN ResolveLoop
    ELSE resolve(disk, NodeAt(disk, path).target, seen \cup {path})

\* A test that takes every entry for one inside the cache.
_is_within_cache_unchecked(disk, path, base, loop_raises) == TRUE

\* _is_within_cache: relative_to raises ValueError for a path that is not
\* under base; resolve raises RuntimeError on a loop in the interpreters
\* that look for one and returns the path itself in the others.
_is_within_cache(disk, path, base, loop_raises) ==
    LET r == resolve(disk, path, {})
    IN IF r.loop THEN ~loop_raises ELSE IsPrefix(base, r.path)

\* shutil.rmtree: the directory and all that is under it; a link under it
\* is removed as a link.
rmtree(disk, item) == {n \in disk : ~IsPrefix(item, n.path)}

unlink(disk, item) == {n \in disk : n.path # item}

\* The for loop of empty_cache over the entries of the cache root.
RECURSIVE empty_cache_loop(_, _, _, _)
empty_cache_loop(disk, items, cache_root, loop_raises) ==
    IF items = {} THEN disk
    ELSE LET item == CHOOSE i \in items : TRUE
             node == NodeAt(disk, item)
             after ==
                 IF ~_is_within_cache(disk, item, cache_root, loop_raises) THEN disk
                 ELSE IF node.kind = "link" THEN unlink(disk, item)
                 ELSE IF node.kind = "dir" THEN rmtree(disk, item)
                 ELSE unlink(disk, item)
         IN empty_cache_loop(after, items \ {item}, cache_root, loop_raises)

iterdir(disk, directory) ==
    {n.path : n \in {m \in disk : Len(m.path) = Len(directory) + 1
                                   /\ IsPrefix(directory, m.path)}}

empty_cache(disk, cache_dir, loop_raises) ==
    IF ~Exists(disk, resolve(disk, cache_dir, {}).path) THEN disk
    ELSE LET cache_root == resolve(disk, cache_dir, {}).path
         IN empty_cache_loop(disk, iterdir(disk, cache_root), cache_root, loop_raises)

InitEmpty ==
    /\ input \in [entries : SUBSET CacheEntries, cache_dir : {<<"cache">>, <<"c">>},
                  cache_exists : BOOLEAN, loop_raises : BOOLEAN]
    /\ output = NoOutput
    /\ serverTiles = [t \in Types |-> {}]
    /\ ClientFresh
    /\ ProcsFresh
    /\ ServerFresh

\* The disk before the call.
DiskBefore ==
    OutsideNodes \cup
    (IF input.cache_exists THEN {Dir(<<"cache">>)} \cup UNION input.entries ELSE {})

ApplyEmptyCache ==
    /\ output = NoOutput
    /\ output' = [kind |-> "emptied",
                  disk |-> empty_cache(DiskBefore, input.cache_dir, input.loop_raises)]
    /\ UNCHANGED <<input, clientVars, serverVars, procs>>

NextEmpty == ApplyEmptyCache

SpecEmpty == InitEmpty /\ [][NextEmpty]_vars

CacheRoot == <<"cache">>

\* Where an entry of the cache root leads: outside the root, into a loop,
\* or to a path under the root.
LeadsOutside(n) ==
    n.kind = "link" /\ n.target # n.path /\ ~IsPrefix(CacheRoot, n.target)

\* C40: empty_cache removes nothing outside the cache root; of the entries
\* of the root, a link that leads outside is left as it is, a link that
\* leads inside is removed and what it points to is not removed through it,
\* and every other entry is removed with all that is under it.
C40_NothingOutsideDeleted ==
    output.kind = "emptied" =>
        /\ output.disk \subseteq DiskBefore
        /\ \A n \in DiskBefore : ~IsPrefix(CacheRoot, n.path) => n \in output.disk
        /\ Dir(CacheRoot) \in DiskBefore => Dir(CacheRoot) \in output.disk
        /\ \A n \in DiskBefore :
              (Len(n.path) = 2 /\ IsPrefix(CacheRoot, n.path)) =>
                  IF LeadsOutside(n) THEN n \in output.disk
                  ELSE IF n.kind = "link" /\ n.target = n.path THEN TRUE
                  ELSE \A m \in DiskBefore : IsPrefix(n.path, m.path) => m \notin output.disk

\* A cache with a link to a directory outside, a link to a file inside and
\* a directory that holds a link out: the first stays, the others go, and
\* the directory outside keeps its file.
C40_Witness ==
    /\ output.kind = "emptied"
    /\ input.cache_exists
    /\ input.entries = CacheEntries
    /\ Link(<<"cache", "outd">>, <<"home", "dir">>) \in output.disk
    /\ Link(<<"cache", "in">>, <<"cache", "f">>) \notin output.disk
    /\ Dir(<<"cache", "d">>) \notin output.disk
    /\ File(<<"home", "dir", "f">>) \in output.disk

====
